---- MODULE Spec2Model ----
(***************************************************************************)
(* Model of streamlit_app.py (ALMI/FFMI body-composition calculator).      *)
(*                                                                         *)
(* The program computes with Python floats (IEEE-754 binary64).  Numbers   *)
(* are therefore modelled bit-exactly: a float is a sign, a 53-bit         *)
(* significand and an exponent, and every arithmetic operator rounds its   *)
(* exact result to nearest-even as the hardware does.  Significands do not *)
(* fit TLC's 32-bit integers, so they are kept as little-endian sequences  *)
(* of 14-bit limbs.  A Python exception is modelled as a value             *)
(* [k |-> "raise", exc |-> <name>] that every later operation propagates,  *)
(* which is what unwinding out of the function does.                       *)
(***************************************************************************)
EXTENDS Integers, Sequences, FiniteSets, TLC

(***************************************************************************)
(* Natural numbers of arbitrary size: sequences of limbs, least            *)
(* significant first, no leading (high) zero limb; zero is << >>.          *)
(***************************************************************************)
Base == 2 ^ 14

LimbBits == CHOOSE k \in 1..30 : 2 ^ k = Base

Max(a, b) == IF a >= b THEN a ELSE b

Min(a, b) == IF a <= b THEN a ELSE b

Limb(a, i) == IF i >= 1 /\ i <= Len(a) THEN a[i] ELSE 0

RECURSIVE BStrip(_)
BStrip(a) ==
    IF a = << >> THEN << >>
    ELSE IF a[Len(a)] = 0 THEN BStrip(SubSeq(a, 1, Len(a) - 1))
    ELSE a

\* Carry propagation over a sequence of non-negative ints (each < 2^30).
RECURSIVE BCarry(_, _)
BCarry(s, c) ==
    IF s = << >>
    THEN IF c = 0 THEN << >> ELSE <<c % Base>> \o BCarry(<< >>, c \div Base)
    ELSE LET t == Head(s) + c
         IN  <<t % Base>> \o BCarry(Tail(s), t \div Base)

BFromInt(n) == BStrip(BCarry(<<n>>, 0))

BAdd(a, b) ==
    BCarry([i \in 1..Max(Len(a), Len(b)) |-> Limb(a, i) + Limb(b, i)], 0)

\* a - b for a >= b: a + (Base^n - 1 - b) + 1, dropping the carry out of limb n.
BSub(a, b) ==
    LET n == Len(a)
        t == BCarry([i \in 1..n |-> a[i] + (Base - 1 - Limb(b, i))], 1)
    IN  BStrip(SubSeq(t, 1, n))

\* -1, 0, 1 as a < b, a = b, a > b.
RECURSIVE BCmpFrom(_, _, _)
BCmpFrom(a, b, i) ==
    IF i = 0 THEN 0
    ELSE IF a[i] < b[i] THEN -1
    ELSE IF a[i] > b[i] THEN 1
    ELSE BCmpFrom(a, b, i - 1)

BCmp(a, b) ==
    IF Len(a) < Len(b) THEN -1
    ELSE IF Len(a) > Len(b) THEN 1
    ELSE BCmpFrom(a, b, Len(a))

\* a * d for a small multiplier 0 <= d <= Base.
BMulSmall(a, d) == BStrip(BCarry([i \in 1..Len(a) |-> a[i] * d], 0))

RECURSIVE BMul(_, _)
BMul(a, b) ==
    IF b = << >> \/ a = << >> THEN << >>
    ELSE BAdd(BMulSmall(a, Head(b)),
              LET r == BMul(a, Tail(b)) IN IF r = << >> THEN << >> ELSE <<0>> \o r)

BShl(a, n) ==
    IF a = << >> THEN << >>
    ELSE [i \in 1..(n \div LimbBits) |-> 0] \o BMulSmall(a, 2 ^ (n % LimbBits))

BShr(a, n) ==
    LET w == n \div LimbBits
        r == n % LimbBits
        len == Len(a) - w
    IN  IF len <= 0 THEN << >>
        ELSE BStrip([i \in 1..len |->
                 (a[i + w] \div (2 ^ r))
                 + (Limb(a, i + w + 1) % (2 ^ r)) * (2 ^ (LimbBits - r))])

BBit(a, i) == (Limb(a, (i \div LimbBits) + 1) \div (2 ^ (i % LimbBits))) % 2

\* Whether the n lowest bits of a are all zero.
BLowZero(a, n) ==
    /\ \A i \in 1..Min(n \div LimbBits, Len(a)) : a[i] = 0
    /\ Limb(a, (n \div LimbBits) + 1) % (2 ^ (n % LimbBits)) = 0

BitLenSmall(d) == CHOOSE k \in 0..LimbBits : d < 2 ^ k /\ (k = 0 \/ d >= 2 ^ (k - 1))

BBitLen(a) ==
    IF a = << >> THEN 0 ELSE LimbBits * (Len(a) - 1) + BitLenSmall(a[Len(a)])

BToInt(a) == IF a = << >> THEN 0 ELSE a[1] + Base * Limb(a, 2) + Base * Base * Limb(a, 3)

(***************************************************************************)
(* Long division in base Base.  DivDigit(r, d), for r < d, is              *)
(* <<floor(r * Base / d), r * Base mod d>>; the digit is estimated from    *)
(* the 16 leading bits of d, is then off by at most one, and is settled by *)
(* comparing the products.                                                 *)
(***************************************************************************)
DivOut(rb, d, c) == <<c, BSub(rb, BMulSmall(d, c))>>

DivFix(rb, d, qh) ==
    DivOut(rb, d, IF qh < Base /\ BCmp(BMulSmall(d, qh + 1), rb) <= 0 THEN qh + 1
                  ELSE IF BCmp(BMulSmall(d, qh), rb) <= 0 THEN qh
                  ELSE qh - 1)

DivPick(rb, d, sh) == DivFix(rb, d, BToInt(BShr(rb, sh)) \div BToInt(BShr(d, sh)))

DivDigit(r, d) == DivPick(BShl(r, LimbBits), d, Max(BBitLen(d) - 16, 0))

\* n digits of the quotient r * Base^n / d (r < d): <<quotient, remainder>>.
RECURSIVE BDivDigits(_, _, _, _)
RECURSIVE BDivNext(_, _, _, _)
BDivDigits(r, d, n, q) ==
    IF n = 0 THEN <<BStrip(q), r>> ELSE BDivNext(DivDigit(r, d), d, n, q)

BDivNext(s, d, n, q) == BDivDigits(s[2], d, n - 1, <<s[1]>> \o q)

(***************************************************************************)
(* IEEE-754 binary64.  A finite float is (-1)^s * m * 2^e with m below     *)
(* 2^53; normal numbers have m >= 2^52, subnormals and zero have e = EMin. *)
(***************************************************************************)
Precision == 53

EMin == -1074

EMax == 971

Fin(s, m, e) == [k |-> "fin", s |-> s, m |-> m, e |-> e]

Inf(s) == [k |-> "inf", s |-> s, m |-> << >>, e |-> 0]

NaN == [k |-> "nan", s |-> 0, m |-> << >>, e |-> 0]

Raise(exc) == [k |-> "raise", exc |-> exc]

IsExc(x) == x.k = "raise"

IsZero(x) == x.k = "fin" /\ x.m = << >>

Zero(s) == Fin(s, << >>, EMin)

\* A significand of 54 bits (a carry out of the rounding) is halved; an exponent
\* above EMax overflows to infinity.
PackRange(s, M, q) == IF q > EMax THEN Inf(s) ELSE Fin(s, M, q)

Pack(s, M, q) ==
    IF BBitLen(M) > Precision THEN PackRange(s, BShr(M, 1), q + 1) ELSE PackRange(s, M, q)

\* Whether dropping the sh low bits of N rounds the magnitude up.  Mode "even" is
\* the hardware's round-to-nearest-even; "down" truncates and "up" rounds away
\* from zero: the two faithful roundings a libm routine may return.
RoundsUp(N, sh, mode) ==
    CASE mode = "even" -> BBit(N, sh - 1) = 1 /\ (~BLowZero(N, sh - 1) \/ BBit(N, sh) = 1)
      [] mode = "down" -> FALSE
      [] OTHER         -> ~BLowZero(N, sh)

\* N * 2^e in units of 2^q, the last place of the result.
RoundAt(s, N, e, q, mode) ==
    IF q <= e THEN PackRange(s, BShl(N, e - q), q)
    ELSE Pack(s, IF RoundsUp(N, q - e, mode) THEN BAdd(BShr(N, q - e), <<1>>)
                 ELSE BShr(N, q - e), q)

\* The float for the exact value (-1)^s * N * 2^e.
RoundTo(s, N, e, mode) ==
    IF N = << >> THEN Zero(s)
    ELSE RoundAt(s, N, e, Max(BBitLen(N) - 1 + e - (Precision - 1), EMin), mode)

Round(s, N, e) == RoundTo(s, N, e, "even")

\* int -> float conversion (exact below 2^53).
FromInt(n) == IF n < 0 THEN Round(1, BFromInt(0 - n), 0) ELSE Round(0, BFromInt(n), 0)

FNeg(x) == IF x.k \in {"raise", "nan"} THEN x ELSE [x EXCEPT !.s = 1 - x.s]

FAbs(x) == IF x.k \in {"raise", "nan"} THEN x ELSE [x EXCEPT !.s = 0]

\* The sum of two signed magnitudes Na * 2^e0 and Nb * 2^e0; c compares them.
FAddCmp(sa, Na, sb, Nb, e0, c) ==
    IF sa = sb THEN Round(sa, BAdd(Na, Nb), e0)
    ELSE Round(IF c > 0 THEN sa ELSE IF c < 0 THEN sb ELSE 0,
               IF c > 0 THEN BSub(Na, Nb) ELSE BSub(Nb, Na), e0)

FAddMag(sa, Na, sb, Nb, e0) == FAddCmp(sa, Na, sb, Nb, e0, BCmp(Na, Nb))

FAddFin(a, b) ==
    FAddMag(a.s, BShl(a.m, a.e - Min(a.e, b.e)), b.s, BShl(b.m, b.e - Min(a.e, b.e)),
            Min(a.e, b.e))

\* float.__add__.  An operand more than 55 binary places below the other is less
\* than a quarter of its last place, and any such value rounds the same way.
FAdd(a, b) ==
    IF IsExc(a) THEN a ELSE IF IsExc(b) THEN b
    ELSE IF a.k = "nan" \/ b.k = "nan" THEN NaN
    ELSE IF a.k = "inf" THEN (IF b.k = "inf" /\ b.s # a.s THEN NaN ELSE a)
    ELSE IF b.k = "inf" THEN b
    ELSE IF a.m = << >> /\ b.m = << >> THEN Zero(IF a.s = 1 /\ b.s = 1 THEN 1 ELSE 0)
    ELSE IF a.m = << >> THEN b
    ELSE IF b.m = << >> THEN a
    ELSE FAddFin(IF b.e - a.e > Precision + 2 THEN Fin(a.s, <<1>>, b.e - 3) ELSE a,
                 IF a.e - b.e > Precision + 2 THEN Fin(b.s, <<1>>, a.e - 3) ELSE b)

\* float.__sub__
FSub(a, b) == FAdd(a, FNeg(b))

\* float.__mul__
FMulTo(a, b, mode) ==
    IF IsExc(a) THEN a ELSE IF IsExc(b) THEN b
    ELSE IF a.k = "nan" \/ b.k = "nan" THEN NaN
    ELSE IF a.k = "inf" \/ b.k = "inf"
         THEN (IF IsZero(a) \/ IsZero(b) THEN NaN ELSE Inf((a.s + b.s) % 2))
    ELSE RoundTo((a.s + b.s) % 2, BMul(a.m, b.m), a.e + b.e, mode)

FMul(a, b) == FMulTo(a, b, "even")

\* The quotient of two 53-bit significands from its 4 digits and remainder qr:
\* a last bit that says whether the division left a remainder keeps the
\* rounding exact.
FDivQuot(s, qr, e) ==
    Round(s, BCarry([i \in 1..Len(qr[1]) |-> 2 * qr[1][i]], IF qr[2] = << >> THEN 0 ELSE 1), e)

FDivNorm(s, ma, mb, ge, e) ==
    FDivQuot(s, BDivDigits(IF ge THEN BSub(ma, mb) ELSE ma, mb, 4,
                           IF ge THEN <<1>> ELSE << >>), e)

FDivFin(s, ma, ea, mb, eb) ==
    FDivNorm(s, ma, mb, BCmp(ma, mb) >= 0, ea - eb - (4 * LimbBits + 1))

\* float.__truediv__: raises ZeroDivisionError on a zero divisor.
FDiv(a, b) ==
    IF IsExc(a) THEN a ELSE IF IsExc(b) THEN b
    ELSE IF IsZero(b) THEN Raise("ZeroDivisionError")
    ELSE IF a.k = "nan" \/ b.k = "nan" THEN NaN
    ELSE IF a.k = "inf" THEN (IF b.k = "inf" THEN NaN ELSE Inf((a.s + b.s) % 2))
    ELSE IF b.k = "inf" \/ a.m = << >> THEN Zero((a.s + b.s) % 2)
    ELSE FDivFin((a.s + b.s) % 2,
                 BShl(a.m, Precision - BBitLen(a.m)), a.e - (Precision - BBitLen(a.m)),
                 BShl(b.m, Precision - BBitLen(b.m)), b.e - (Precision - BBitLen(b.m)))

\* |a| against |b| for finite non-zero floats: -1, 0, 1.
MagCmp(a, b) ==
    IF BBitLen(a.m) + a.e < BBitLen(b.m) + b.e THEN -1
    ELSE IF BBitLen(a.m) + a.e > BBitLen(b.m) + b.e THEN 1
    ELSE BCmp(BShl(a.m, a.e - Min(a.e, b.e)), BShl(b.m, b.e - Min(a.e, b.e)))

\* |a| < |b| for floats of the same sign that are not both zero.
MagLt(a, b) ==
    IF a.k = "inf" THEN FALSE
    ELSE IF b.k = "inf" THEN TRUE
    ELSE IF b.m = << >> THEN FALSE
    ELSE IF a.m = << >> THEN TRUE
    ELSE MagCmp(a, b) < 0

\* float comparisons <, ==, <= (neither operand an exception).
FLt(a, b) ==
    IF a.k = "nan" \/ b.k = "nan" THEN FALSE
    ELSE IF IsZero(a) /\ IsZero(b) THEN FALSE
    ELSE IF a.s # b.s THEN a.s = 1
    ELSE IF a.s = 0 THEN MagLt(a, b) ELSE MagLt(b, a)

FEq(a, b) ==
    IF a.k = "nan" \/ b.k = "nan" THEN FALSE
    ELSE (IsZero(a) /\ IsZero(b)) \/ a = b

FLe(a, b) == FLt(a, b) \/ FEq(a, b)

\* A decimal literal n / 10^k (n below 2^31, k <= 9): both are exact floats, so
\* the correctly rounded quotient is the float the literal denotes.
Dec(n, k) == FDiv(FromInt(n), FromInt(10 ^ k))

\* The int literals the arithmetic is mixed with (Python converts them to float).
One == FromInt(1)

Hundred == FromInt(100)

(***************************************************************************)
(* Unit conversion (lines 437-451).                                        *)
(***************************************************************************)
LbsPerKg == Dec(220462, 5)

MetersPerInch == Dec(254, 4)

lbs_to_kg_wrongFactor(lbs) == FDiv(lbs, Dec(22, 1))

lbs_to_kg(lbs) == FDiv(lbs, LbsPerKg)

kg_to_lbs(kg) == FMul(kg, LbsPerKg)

inches_to_m(inches) == FMul(inches, MetersPerInch)

m_to_inches(m) == FDiv(m, MetersPerInch)

(***************************************************************************)
(* Index and mass calculators (lines 453-476).                             *)
(***************************************************************************)
calculate_alm_from_limbs_noRightLeg(left_arm, right_arm, left_leg, right_leg) ==
    FAdd(FAdd(left_arm, right_arm), left_leg)

calculate_alm_from_limbs(left_arm, right_arm, left_leg, right_leg) ==
    FAdd(FAdd(FAdd(left_arm, right_arm), left_leg), right_leg)

\* height_m ** 2 at rounding mode lm.  float.__pow__ calls libm's pow(), which
\* is faithful but not always correctly rounded: it returns one of the two
\* floats around the exact square, and which one depends on the platform.  A
\* finite base whose square overflows raises OverflowError.
PowSquared(x, lm) ==
    IF IsExc(x) THEN x
    ELSE IF x.k = "nan" THEN NaN
    ELSE IF x.k = "inf" THEN Inf(0)
    ELSE IF FMulTo(x, x, "even").k = "inf" THEN Raise("OverflowError")
    ELSE FMulTo(x, x, lm)

calculate_almi_from_alm(alm, height_m, lm) == FDiv(alm, PowSquared(height_m, lm))

calculate_alm_from_almi_notSquared(almi, height_m, lm) == FMul(almi, height_m)

calculate_alm_from_almi(almi, height_m, lm) == FMul(almi, PowSquared(height_m, lm))

calculate_ffmi_from_ffm_notSquared(ffm, height_m, lm) == FDiv(ffm, height_m)

calculate_ffmi_from_ffm(ffm, height_m, lm) == FDiv(ffm, PowSquared(height_m, lm))

calculate_ffm_from_ffmi(ffmi, height_m, lm) == FMul(ffmi, PowSquared(height_m, lm))

\* A variant of fat_free_mass that clamps body fat above 100 %.
fat_free_mass_clamped(weight_kg, body_fat_pct) ==
    IF FLt(Hundred, body_fat_pct) THEN Zero(0)
    ELSE FMul(weight_kg, FSub(One, FDiv(body_fat_pct, Hundred)))

\* line 475
fat_free_mass(weight_kg, body_fat_pct) ==
    FMul(weight_kg, FSub(One, FDiv(body_fat_pct, Hundred)))

calculate_ffmi_from_weight_bf(weight_kg, body_fat_pct, height_m, lm) ==
    FDiv(fat_free_mass(weight_kg, body_fat_pct), PowSquared(height_m, lm))

(***************************************************************************)
(* Percentile tables (lines 502-537).  A dict is the sequence of its       *)
(* items in insertion order, which is the order items() iterates in.       *)
(***************************************************************************)
Bands(v5, v25, v50, v75, v95) ==
    <<[percentile |-> "5th percentile", value |-> Dec(v5, 1)],
      [percentile |-> "25th percentile", value |-> Dec(v25, 1)],
      [percentile |-> "50th percentile (median)", value |-> Dec(v50, 1)],
      [percentile |-> "75th percentile", value |-> Dec(v75, 1)],
      [percentile |-> "95th percentile", value |-> Dec(v95, 1)]>>

\* lines 506-512
AlmiMale == Bands(68, 78, 85, 94, 108)

\* lines 514-520
AlmiFemale == Bands(52, 60, 68, 76, 88)

\* lines 523-529
FfmiMale == Bands(165, 180, 195, 210, 235)

\* lines 531-537
FfmiFemale == Bands(145, 155, 165, 175, 190)

\* A variant whose Female ALMI table has its two highest bands exchanged.
AlmiFemaleUnordered == Bands(52, 60, 68, 88, 76)

get_percentile_targets_unordered(gender, metric_type) ==
    IF metric_type = "ALMI"
    THEN IF gender = "Male" THEN AlmiMale ELSE AlmiFemaleUnordered
    ELSE IF gender = "Male" THEN FfmiMale ELSE FfmiFemale

get_percentile_targets(gender, metric_type) ==
    IF metric_type = "ALMI"
    THEN IF gender = "Male" THEN AlmiMale ELSE AlmiFemale
    ELSE IF gender = "Male" THEN FfmiMale ELSE FfmiFemale

(***************************************************************************)
(* Body recomposition (lines 478-500).  One definition per assignment of   *)
(* calculate_body_recomp, named after the variable it assigns.             *)
(***************************************************************************)
current_fat_mass_asFraction(current_weight, current_bf_pct) ==
    FMul(current_weight, current_bf_pct)

current_fat_mass(current_weight, current_bf_pct) ==
    FMul(current_weight, FDiv(current_bf_pct, Hundred))

current_lean_mass(current_weight, current_fat) == FSub(current_weight, current_fat)

new_lean_mass_noGain(current_lean, target_lean_gain) == current_lean

new_lean_mass(current_lean, target_lean_gain) == FAdd(current_lean, target_lean_gain)

new_fat_mass_noVat(current_fat, target_fat_loss, target_vat_loss) ==
    FSub(current_fat, target_fat_loss)

new_fat_mass(current_fat, target_fat_loss, target_vat_loss) ==
    FSub(FSub(current_fat, target_fat_loss), target_vat_loss)

new_weight(new_lean, new_fat) == FAdd(new_lean, new_fat)

new_bf_pct(new_fat, new_wt) == FMul(FDiv(new_fat, new_wt), Hundred)

net_weight_change(new_wt, current_weight) == FSub(new_wt, current_weight)

\* The dict returned, or the exception that left the function.
calculate_body_recomp(current_weight, current_bf_pct, target_lean_gain, target_fat_loss, target_vat_loss) ==
    LET cf  == current_fat_mass(current_weight, current_bf_pct)
        cl  == current_lean_mass(current_weight, cf)
        nl  == new_lean_mass(cl, target_lean_gain)
        nf  == new_fat_mass(cf, target_fat_loss, target_vat_loss)
        nw  == new_weight(nl, nf)
        pct == new_bf_pct(nf, nw)
    IN  IF IsExc(pct) THEN pct
        ELSE [k |-> "dict",
              current_lean |-> cl,
              current_fat |-> cf,
              new_lean |-> nl,
              new_fat |-> nf,
              new_weight |-> nw,
              new_bf_pct |-> pct,
              net_weight_change |-> net_weight_change(nw, current_weight),
              total_fat_loss |-> FAdd(target_fat_loss, target_vat_loss)]

(***************************************************************************)
(* Inputs.  Each list holds decimal values in tenths; a bound says how     *)
(* many of them the model draws from.                                      *)
(***************************************************************************)
Take(list, n) == {Dec(list[i], 1) : i \in 1..Min(n, Len(list))}

NumWeights == 2

NumBodyFats == 2

NumLeanGains == 5

NumFatLosses == 2

NumVatLosses == 2

Weights == Take(<<700, 300, 1100>>, NumWeights)

BodyFats == Take(<<200, 400, 90>>, NumBodyFats)

LeanGains == Take(<<50, 0, 1, 300, 100, 5>>, NumLeanGains)

FatLosses == Take(<<80, 300, 140>>, NumFatLosses)

VatLosses == Take(<<10, 0, 100>>, NumVatLosses)

TakeHundredths(list, n) == {Dec(list[i], 2) : i \in 1..Min(n, Len(list))}

NumUnitValues == 5

NumIndices == 3

NumHeights == 3

NumFfmiWeights == 2

NumFfmiBodyFats == 4

NumArmValues == 1

NumLegValues == 2

\* How many calls a run chains.
MaxCalls == 2

UnitValues == Take(<<1540, 700, 0, 680, 17, 1>>, NumUnitValues)

Indices == Take(<<65, 75, 0, 180>>, NumIndices)

Heights == TakeHundredths(<<170, 0, -170, 180>>, NumHeights)

FfmiWeights == Take(<<700, 0, 300>>, NumFfmiWeights)

FfmiBodyFats == Take(<<150, 1500, -100, 1000, 0>>, NumFfmiBodyFats)

LeftArms == Take(<<32, 10>>, NumArmValues)

RightArms == Take(<<34, 11>>, NumArmValues)

LeftLegs == Take(<<82, 30, 97>>, NumLegValues)

RightLegs == Take(<<85, 31, 99>>, NumLegValues)

LibmModes == {"even", "down", "up"}

\* st.number_input keeps a value inside [min_value, max_value].
InRange(v, lo, hi) == FLe(FromInt(lo), v) /\ FLe(v, FromInt(hi))

\* The widget ranges of "Body Recomposition Planning" (lines 1215-1249).
RecompWidgetsOk(w) ==
    /\ InRange(w.current_bf_pct, 5, 40)
    /\ IF w.unit_system = "Metric"
       THEN /\ InRange(w.weight, 30, 200)
            /\ InRange(w.lean_gain, 0, 30)
            /\ InRange(w.fat_loss, 0, 50)
            /\ InRange(w.vat_loss, 0, 10)
       ELSE /\ InRange(w.weight, 66, 440)
            /\ InRange(w.lean_gain, 0, 66)
            /\ InRange(w.fat_loss, 0, 110)
            /\ InRange(w.vat_loss, 0, 22)

VARIABLES
    libm,   \* how this platform's libm rounds pow(): "even", "down" or "up"
    inp,    \* the inputs of the run: the function called and its arguments
    ops,    \* the functions applied so far, in order
    val,    \* the value the last one returned, or the exception it raised
    session_state   \* st.session_state: what the browser session keeps between runs

vars == <<libm, inp, ops, val, session_state>>

None == [k |-> "none"]

\* st.session_state of a new browser session: a dict without keys.
NoSession == [key \in {} |-> None]

Done == ops # << >>

(***************************************************************************)
(* Body Recomposition Planning: a direct call of calculate_body_recomp,    *)
(* and the page (main, lines 1193-1265) that reads the widgets, converts   *)
(* English units and calls it.                                             *)
(***************************************************************************)
RecompInputs ==
    {[fn |-> f, unit_system |-> u, weight |-> w, current_bf_pct |-> b,
      lean_gain |-> g, fat_loss |-> l, vat_loss |-> v] :
        f \in {"calculate_body_recomp"}, u \in {"Metric"},
        w \in Weights, b \in BodyFats, g \in LeanGains, l \in FatLosses, v \in VatLosses}
    \cup
    {w \in [fn : {"main"}, input_method : {"Body Recomposition Planning"},
            unit_system : {"Metric", "English"}, gender : {"Male", "Female"},
            generate : BOOLEAN, weight : Weights, current_bf_pct : BodyFats, lean_gain : LeanGains,
            fat_loss : FatLosses, vat_loss : VatLosses] : RecompWidgetsOk(w)}

InitRecomp ==
    /\ session_state = NoSession
    /\ libm = "even"
    /\ inp \in RecompInputs
    /\ ops = << >>
    /\ val = None

\* lines 1215-1249: a widget's value in kg.
ToKg(unit_system, x) == IF unit_system = "English" THEN lbs_to_kg(x) ELSE x

\* The five arguments, in kg, that the page calls calculate_body_recomp with.
RecompArgs(w) ==
    [current_weight |-> ToKg(w.unit_system, w.weight),
     current_bf_pct |-> w.current_bf_pct,
     target_lean_gain |-> ToKg(w.unit_system, w.lean_gain),
     target_fat_loss |-> ToKg(w.unit_system, w.fat_loss),
     target_vat_loss |-> ToKg(w.unit_system, w.vat_loss)]

\* lines 1255-1263: the summary line shown under the inputs.
change_direction(net) ==
    IF FLt(Zero(0), net) THEN "gain"
    ELSE IF FLt(net, Zero(0)) THEN "lose"
    ELSE "maintain"

weight_change(unit_system, net) ==
    IF unit_system = "English" THEN kg_to_lbs(FAbs(net)) ELSE FAbs(net)

\* lines 1273-1276: lean mass gained per month, by experience level.
rates_kg_zeroAdvanced(gender) ==
    IF gender = "Male" THEN <<Dec(68, 2), Dec(34, 2), Dec(11, 2)>>
    ELSE <<Dec(34, 2), Dec(17, 2), Zero(0)>>

rates_kg(gender) ==
    IF gender = "Male" THEN <<Dec(68, 2), Dec(34, 2), Dec(11, 2)>>
    ELSE <<Dec(34, 2), Dec(17, 2), Dec(6, 2)>>

\* line 1279
ExperienceLevels == <<"Beginner (Year 1)", "Intermediate (Year 2-3)", "Advanced (Year 4+)">>

\* line 1280
timeline_months(target_lean_gain, rate) == FDiv(target_lean_gain, rate)

TimelineItem(level, rate, target_lean_gain) ==
    [experience |-> level, monthly_rate_kg |-> rate,
     timeline_months |-> timeline_months(target_lean_gain, rate)]

\* lines 1278-1285: one item per experience level, in order.
TimelineOf(rates, target_lean_gain) ==
    [i \in 1..3 |-> TimelineItem(ExperienceLevels[i], rates[i], target_lean_gain)]

timeline_data(gender, target_lean_gain) == TimelineOf(rates_kg(gender), target_lean_gain)

\* line 1267: the timeline is built in the run in which the button
\* "Generate Recomposition Analysis" was pressed; no timeline is << >>.
timeline_shown(generate, gender, target_lean_gain) ==
    IF generate THEN timeline_data(gender, target_lean_gain) ELSE << >>

\* The exception of the first division that raises, if one does.
TimelineRaised(timeline) ==
    IF timeline = << >> THEN None
    ELSE IF IsExc(timeline[1].timeline_months) THEN timeline[1].timeline_months
    ELSE IF IsExc(timeline[2].timeline_months) THEN timeline[2].timeline_months
    ELSE IF IsExc(timeline[3].timeline_months) THEN timeline[3].timeline_months
    ELSE None

\* What the page holds after the script run: the dict, the summary and the
\* timeline, or the exception that ended the run.
RecompPage(unit_system, recomp, timeline) ==
    IF IsExc(recomp) THEN recomp
    ELSE IF IsExc(TimelineRaised(timeline)) THEN TimelineRaised(timeline)
    ELSE [k |-> "page", recomp |-> recomp,
          change_direction |-> change_direction(recomp.net_weight_change),
          weight_change |-> weight_change(unit_system, recomp.net_weight_change),
          timeline_data |-> timeline]

RecompCall(a) ==
    calculate_body_recomp(a.current_weight, a.current_bf_pct, a.target_lean_gain,
                          a.target_fat_loss, a.target_vat_loss)

CallRecomp ==
    /\ inp.fn = "calculate_body_recomp"
    /\ ops = << >>
    /\ val' = RecompCall(RecompArgs(inp))
    /\ ops' = <<"calculate_body_recomp">>
    /\ UNCHANGED <<libm, inp, session_state>>

\* main, lines 1193-1288: read the widgets, call, show the summary and the
\* timeline.
RecompPlanning ==
    /\ inp.fn = "main"
    /\ inp.input_method = "Body Recomposition Planning"
    /\ ops = << >>
    /\ val' = RecompPage(inp.unit_system, RecompCall(RecompArgs(inp)),
                         timeline_shown(inp.generate, inp.gender,
                                        ToKg(inp.unit_system, inp.lean_gain)))
    /\ ops' = <<"main">>
    /\ UNCHANGED <<libm, inp, session_state>>

NextRecomp == CallRecomp \/ RecompPlanning

SpecRecomp == InitRecomp /\ [][NextRecomp]_vars

(***************************************************************************)
(* generate_bmd_report_html (lines 1-250), called with T-scores of three   *)
(* sites.  The report is kept as the values the template is filled with.   *)
(***************************************************************************)
NumTScores == 9

\* T-scores, in tenths: the page's mock scores and scores around the bounds.
TScores == Take(<<12, 14, 8, -10, -25, -26, -12, -40, 40, -30, 15>>, NumTScores)

\* lines 45-48: the coloured bands of the chart, as percentages of its
\* height, each with the legend of its colour (lines 57-72).
ChartBands ==
    <<[legend |-> "Osteoporosis", bottom |-> Zero(0), height |-> Dec(125, 1)],
      [legend |-> "Osteopenia", bottom |-> Dec(125, 1), height |-> Dec(1875, 2)],
      [legend |-> "Normal", bottom |-> Dec(3125, 2), height |-> Dec(375, 1)],
      [legend |-> "High Density", bottom |-> Dec(6875, 2), height |-> Dec(3125, 2)]>>

\* lines 203-204
calc_position(t_score) == FMul(FDiv(FAdd(t_score, FromInt(4)), FromInt(8)), Hundred)

\* lines 207-213
get_bmd_status(t_score) ==
    IF FLe(Dec(-10, 1), t_score) THEN "Normal"
    ELSE IF FLe(Dec(-25, 1), t_score) THEN "Osteopenia"
    ELSE "Osteoporosis"

\* A variant that takes the average (line 217) for the minimum.
min_score_asAverage(scores) == FDiv(FAdd(FAdd(scores[1], scores[2]), scores[3]), FromInt(3))

\* line 216: min(scores), the first of the smallest.
min_score(scores) ==
    IF FLt(scores[2], scores[1])
    THEN IF FLt(scores[3], scores[2]) THEN scores[3] ELSE scores[2]
    ELSE IF FLt(scores[3], scores[1]) THEN scores[3] ELSE scores[1]

\* lines 219-227
overall_assessment(lowest) ==
    IF FLe(Dec(-10, 1), lowest)
    THEN "Excellent bone health with normal bone density at all measured sites."
    ELSE IF FLe(Dec(-25, 1), lowest)
    THEN "Mild bone loss (osteopenia) detected. Early intervention recommended."
    ELSE "Osteoporosis detected. Medical evaluation and treatment planning recommended."

\* lines 221-227
recommendations(lowest) ==
    IF FLe(Dec(-10, 1), lowest)
    THEN "Continue current lifestyle with adequate calcium, vitamin D, and weight-bearing exercise."
    ELSE IF FLe(Dec(-25, 1), lowest)
    THEN "Increase weight-bearing exercise, ensure adequate calcium/vitamin D intake, consider lifestyle modifications."
    ELSE "Consult with physician for comprehensive osteoporosis management including medication evaluation."

\* lines 238-243: what the template shows of one site.
BmdSite(t_score) ==
    [t |-> t_score, position |-> calc_position(t_score), status |-> get_bmd_status(t_score)]

\* lines 215-249
generate_bmd_report_html(patient_data, bmd_data, unit_system) ==
    [k |-> "html", report_type |-> "BMD Analysis Report",
     patient_name |-> patient_data.name, height |-> patient_data.height_display,
     left_femur |-> BmdSite(bmd_data.left_femur_t),
     right_femur |-> BmdSite(bmd_data.right_femur_t),
     spine |-> BmdSite(bmd_data.spine_t),
     overall_assessment |->
        overall_assessment(min_score(<<bmd_data.left_femur_t, bmd_data.right_femur_t,
                                       bmd_data.spine_t>>)),
     recommendations |->
        recommendations(min_score(<<bmd_data.left_femur_t, bmd_data.right_femur_t,
                                    bmd_data.spine_t>>))]

\* lines 1528-1535, as main fills it for the default patient.
DefaultPatient ==
    [name |-> "John Doe", dob |-> "01/01/1990", gender |-> "Male",
     height_m |-> Dec(170, 2), height_display |-> <<Dec(1700, 1), "cm">>]

InitBmd ==
    /\ libm = "even"
    /\ inp \in [fn : {"generate_bmd_report_html"}, unit_system : {"Metric", "English"},
                left_femur_t : TScores, right_femur_t : TScores, spine_t : TScores]
    /\ ops = << >>
    /\ val = None
    /\ session_state = NoSession

Call_generate_bmd_report_html ==
    /\ inp.fn = "generate_bmd_report_html"
    /\ ops = << >>
    /\ val' = generate_bmd_report_html(DefaultPatient, inp, inp.unit_system)
    /\ ops' = <<"generate_bmd_report_html">>
    /\ UNCHANGED <<libm, inp, session_state>>

SpecBmd == InitBmd /\ [][Call_generate_bmd_report_html]_vars

(***************************************************************************)
(* Limb-Specific Analysis (main, lines 1290-1507): the page reads the      *)
(* widgets, derives the current index from the chosen input method and     *)
(* shows the chosen target analysis.                                       *)
(***************************************************************************)
NumPageHeights == 1

NumPageIndices == 4

NumTargets == 2

\* The float just below 6.0, a value a user can type into the index widget.
JustBelowSix == FSub(Dec(60, 1), Round(0, <<1>>, -50))

AlmiValues == Take(<<65, 68, 30, 110, 75, 100>>, NumPageIndices) \cup {JustBelowSix}

FfmiValues == Take(<<180, 100, 250, 200, 110>>, NumPageIndices)

AlmiTargets == Take(<<75, 65, 30>>, NumTargets)

FfmiTargets == Take(<<200, 180, 100>>, NumTargets)

\* Heights as typed: centimetres in Metric, inches in English.
PageHeights(unit_system) ==
    IF unit_system = "Metric" THEN Take(<<1700, 1500, 1800>>, NumPageHeights)
    ELSE Take(<<669, 680, 700>>, NumPageHeights)

\* A run of the page: every widget it shows has a value, the others None.
AnalysisRun(u, h, g, c, it, cur, limbs, w, bf, tm, tgt) ==
    [fn |-> "main", input_method |-> "Limb-Specific Analysis", unit_system |-> u,
     height |-> h, gender |-> g, calc_type |-> c, input_type |-> it, current |-> cur,
     left_arm |-> limbs[1], right_arm |-> limbs[2], left_leg |-> limbs[3],
     right_leg |-> limbs[4], weight |-> w, body_fat_pct |-> bf,
     target_method |-> tm, target_metric |-> tgt,
     patient_name |-> "John Doe", report_type |-> "Body Composition Report",
     generate_report |-> FALSE, preview |-> FALSE]

\* The run w with "Generate Report" pressed for a report type and a patient.
WithReport(w, report_type, patient_name) ==
    [w EXCEPT !.generate_report = TRUE, !.report_type = report_type,
              !.patient_name = patient_name]

NoLimbs == <<None, None, None, None>>

\* lines 1349-1372: the limb widgets' ranges.
LimbWidgetsOk(unit_system, limbs) ==
    IF unit_system = "Metric"
    THEN /\ InRange(limbs[1], 1, 15) /\ InRange(limbs[2], 1, 15)
         /\ InRange(limbs[3], 3, 25) /\ InRange(limbs[4], 3, 25)
    ELSE /\ FLe(Dec(22, 1), limbs[1]) /\ FLe(limbs[1], FromInt(33))
         /\ FLe(Dec(22, 1), limbs[2]) /\ FLe(limbs[2], FromInt(33))
         /\ FLe(Dec(66, 1), limbs[3]) /\ FLe(limbs[3], FromInt(55))
         /\ FLe(Dec(66, 1), limbs[4]) /\ FLe(limbs[4], FromInt(55))

\* lines 1392-1397: the weight and body-fat widgets' ranges.
WeightWidgetsOk(unit_system, w, bf) ==
    /\ InRange(bf, 5, 40)
    /\ IF unit_system = "Metric" THEN InRange(w, 30, 200) ELSE InRange(w, 66, 440)

Units == {"Metric", "English"}

DirectRuns ==
    {AnalysisRun(u, h, g, "ALMI", "Direct ALMI/FFMI", cur, NoLimbs, None, None, tm[1], tm[2]) :
        u \in Units, h \in PageHeights("Metric") \cup PageHeights("English"),
        g \in {"Male", "Female"}, cur \in AlmiValues,
        tm \in ({"Specific Target"} \X AlmiTargets)
                \cup ({"Percentile Goals", "Visual Analysis"} \X {None})}
    \cup
    {AnalysisRun(u, h, g, "FFMI", "Direct ALMI/FFMI", cur, NoLimbs, None, None, tm[1], tm[2]) :
        u \in Units, h \in PageHeights("Metric") \cup PageHeights("English"),
        g \in {"Male", "Female"}, cur \in FfmiValues,
        tm \in ({"Specific Target"} \X FfmiTargets)
                \cup ({"Percentile Goals", "Visual Analysis"} \X {None})}

LimbRuns ==
    {AnalysisRun(u, h, "Female", c, "Individual Limb Masses", None, limbs, None, None,
                 "Percentile Goals", None) :
        u \in Units, h \in PageHeights("Metric") \cup PageHeights("English"),
        c \in {"ALMI", "FFMI"},
        limbs \in LeftArms \X RightArms \X LeftLegs \X RightLegs}

WeightRuns ==
    {AnalysisRun(u, h, "Male", c, "From Weight & Body Fat", None, NoLimbs, w, bf,
                 "Visual Analysis", None) :
        u \in Units, h \in PageHeights("Metric") \cup PageHeights("English"),
        c \in {"ALMI", "FFMI"},
        w \in Weights, bf \in BodyFats}

\* The runs whose values the widgets accept.
AnalysisWidgetsOk(w) ==
    /\ w.height \in PageHeights(w.unit_system)
    /\ w.input_type = "Individual Limb Masses"
          => LimbWidgetsOk(w.unit_system, <<w.left_arm, w.right_arm, w.left_leg, w.right_leg>>)
    /\ w.input_type = "From Weight & Body Fat"
          => WeightWidgetsOk(w.unit_system, w.weight, w.body_fat_pct)

AnalysisInputs == {w \in DirectRuns \cup LimbRuns \cup WeightRuns : AnalysisWidgetsOk(w)}

InitAnalysis ==
    /\ session_state = NoSession
    /\ libm \in LibmModes
    /\ inp \in AnalysisInputs
    /\ ops = << >>
    /\ val = None

\* lines 1298-1306
HeightM(unit_system, height) ==
    IF unit_system = "Metric" THEN FDiv(height, Hundred) ELSE inches_to_m(height)

\* line 1400
ffm(weight_kg, body_fat_pct) == FMul(weight_kg, FSub(One, FDiv(body_fat_pct, Hundred)))

\* line 1401
estimated_alm_halved(fat_free) == FMul(fat_free, Dec(5, 1))

estimated_alm(fat_free) == FMul(fat_free, Dec(75, 2))

\* lines 1376 and 1401: the appendicular lean mass the page derives, None
\* where the input method derives none.
total_alm(w) ==
    IF w.input_type = "Individual Limb Masses"
    THEN calculate_alm_from_limbs(ToKg(w.unit_system, w.left_arm),
                                  ToKg(w.unit_system, w.right_arm),
                                  ToKg(w.unit_system, w.left_leg),
                                  ToKg(w.unit_system, w.right_leg))
    ELSE IF w.input_type = "From Weight & Body Fat" /\ w.calc_type = "ALMI"
    THEN estimated_alm(ffm(ToKg(w.unit_system, w.weight), w.body_fat_pct))
    ELSE None

\* lines 1325-1414: the current index, from the chosen input method.
current_metric(w, alm, h, lm) ==
    IF w.input_type = "Direct ALMI/FFMI" THEN w.current
    ELSE IF w.input_type = "Individual Limb Masses" THEN calculate_almi_from_alm(alm, h, lm)
    ELSE IF w.calc_type = "ALMI" THEN calculate_almi_from_alm(alm, h, lm)
    ELSE calculate_ffmi_from_weight_bf(ToKg(w.unit_system, w.weight), w.body_fat_pct, h, lm)

\* `if current_metric:` - a float is true unless it is zero.
Truthy(x) == ~IsZero(x)

\* lines 1444-1449 and 1468-1473
mass_from_index(calc_type, index, h, lm) ==
    IF calc_type = "ALMI" THEN calculate_alm_from_almi(index, h, lm)
    ELSE calculate_ffm_from_ffmi(index, h, lm)

\* What a message shows of a mass: pounds in English, kilograms in Metric.
Shown(unit_system, mass) == IF unit_system = "English" THEN kg_to_lbs(mass) ELSE mass

\* lines 1453-1459
specific_message_strict(unit_system, mass_needed) ==
    IF FLe(Zero(0), mass_needed)
    THEN [text |-> "Gain", amount |-> Shown(unit_system, mass_needed)]
    ELSE [text |-> "Target already reached!", amount |-> None]

specific_message(unit_system, mass_needed) ==
    IF FLt(Zero(0), mass_needed)
    THEN [text |-> "Gain", amount |-> Shown(unit_system, mass_needed)]
    ELSE [text |-> "Target already reached!", amount |-> None]

\* lines 1442-1459
SpecificResult(unit_system, current_mass, target_mass, mass_needed) ==
    IF IsExc(mass_needed) THEN mass_needed
    ELSE [k |-> "specific", current_mass |-> current_mass, target_mass |-> target_mass,
          mass_needed |-> mass_needed,
          message |-> specific_message(unit_system, mass_needed)]

SpecificTarget(unit_system, current_mass, target_mass) ==
    SpecificResult(unit_system, current_mass, target_mass, FSub(target_mass, current_mass))

\* line 1475: max(0, x) is x when x > 0 and the integer 0 otherwise.
max0_signed(x) == x

max0(x) == IF IsExc(x) THEN x ELSE IF FLt(Zero(0), x) THEN x ELSE Zero(0)

\* A variant that reports a band as achieved when mass is still needed.
status_flipped(unit_system, mass_needed) ==
    IF ~FEq(mass_needed, Zero(0)) THEN [text |-> "Achieved", amount |-> None]
    ELSE [text |-> "Need", amount |-> Shown(unit_system, mass_needed)]

\* lines 1477-1483
status(unit_system, mass_needed) ==
    IF FEq(mass_needed, Zero(0)) THEN [text |-> "Achieved", amount |-> None]
    ELSE [text |-> "Need", amount |-> Shown(unit_system, mass_needed)]

\* lines 1485-1489: one row of results_data.
ResultRow(unit_system, band, mass_needed) ==
    [percentile |-> band.percentile, target_value |-> band.value,
     mass_needed |-> mass_needed, status |-> status(unit_system, mass_needed)]

\* lines 1467-1489
results_data(w, percentiles, cm, h, lm) ==
    [i \in 1..Len(percentiles) |->
        ResultRow(w.unit_system, percentiles[i],
                  max0(FSub(mass_from_index(w.calc_type, percentiles[i].value, h, lm),
                            mass_from_index(w.calc_type, cm, h, lm))))]

PercentileGoals(percentiles, rows) ==
    IF \E i \in 1..Len(rows) : IsExc(rows[i].mass_needed)
    THEN rows[CHOOSE i \in 1..Len(rows) : IsExc(rows[i].mass_needed)].mass_needed
    ELSE [k |-> "percentiles", percentiles |-> percentiles, results_data |-> rows]

\* A variant in which the table is an object kept between script runs whose
\* top band an earlier run has raised.
page_percentiles_kept(w) ==
    IF Len(ops) > 1
    THEN [get_percentile_targets(w.gender, w.calc_type) EXCEPT ![5].value = FAdd(@, One)]
    ELSE get_percentile_targets(w.gender, w.calc_type)

\* line 1462: percentiles = get_percentile_targets(gender, calc_type)
page_percentiles(w) == get_percentile_targets(w.gender, w.calc_type)

\* lines 1430-1507: the chosen target analysis.
TargetAnalysis(w, cm, h, lm) ==
    IF w.target_method = "Specific Target"
    THEN IF Truthy(cm)
         THEN SpecificTarget(w.unit_system, mass_from_index(w.calc_type, cm, h, lm),
                             mass_from_index(w.calc_type, w.target_metric, h, lm))
         ELSE None
    ELSE IF w.target_method = "Percentile Goals"
    THEN IF Truthy(cm)
         THEN PercentileGoals(page_percentiles(w),
                              results_data(w, page_percentiles(w), cm, h, lm))
         ELSE [k |-> "percentiles", percentiles |-> page_percentiles(w),
               results_data |-> << >>]
    ELSE None

\* The four limbs share the appendicular lean mass 23, 25, 25 and 27 %.
LimbShares(alm) ==
    IF IsExc(alm) THEN alm
    ELSE [k |-> "dict", left_arm |-> FMul(alm, Dec(23, 2)), right_arm |-> FMul(alm, Dec(25, 2)),
          left_leg |-> FMul(alm, Dec(25, 2)), right_leg |-> FMul(alm, Dec(27, 2))]

\* lines 1322-1414: limb_data, None where the input method assigns none
\* (direct FFMI, line 1337, and FFMI from weight and body fat, line 1412).
limb_data(w, alm, h, lm) ==
    IF w.input_type = "Direct ALMI/FFMI"
    THEN IF w.calc_type = "ALMI" THEN LimbShares(calculate_alm_from_almi(w.current, h, lm))
         ELSE None
    ELSE IF w.input_type = "Individual Limb Masses"
    THEN [k |-> "dict", left_arm |-> ToKg(w.unit_system, w.left_arm),
          right_arm |-> ToKg(w.unit_system, w.right_arm),
          left_leg |-> ToKg(w.unit_system, w.left_leg),
          right_leg |-> ToKg(w.unit_system, w.right_leg)]
    ELSE IF w.calc_type = "ALMI" THEN LimbShares(alm)
    ELSE None

\* lines 1416-1425: with calc_type FFMI the dict reads the local ffm, which
\* only the ALMI branch (line 1400) assigns.  An empty dict is None.
scan_data(w, alm, limbs) ==
    IF w.input_type # "From Weight & Body Fat" THEN None
    ELSE IF w.calc_type = "ALMI"
    THEN [k |-> "dict", weight |-> ToKg(w.unit_system, w.weight),
          body_fat |-> w.body_fat_pct, alm |-> alm,
          left_arm |-> limbs.left_arm, right_arm |-> limbs.right_arm,
          left_leg |-> limbs.left_leg, right_leg |-> limbs.right_leg]
    ELSE Raise("UnboundLocalError")

AnalysisShown(h, alm, cm, scan, target) ==
    IF IsExc(scan) THEN scan
    ELSE IF IsExc(target) THEN target
    ELSE [k |-> "page", height_m |-> h, alm |-> alm, current_metric |-> cm,
          scan_data |-> scan, target |-> target]

\* What the page holds after lines 1290-1507, or the exception that ended
\* the run there.
AnalysisPage(w, h, alm, cm, limbs, lm) ==
    IF IsExc(h) THEN h
    ELSE IF IsExc(alm) THEN alm
    ELSE IF IsExc(cm) THEN cm
    ELSE IF IsExc(limbs) THEN limbs
    ELSE AnalysisShown(h, alm, cm, scan_data(w, alm, limbs), TargetAnalysis(w, cm, h, lm))

(***************************************************************************)
(* generate_body_comp_report_html.  Its def line and template are lines    *)
(* 252-427 and its body lines 855-1016.  The report is kept as the values  *)
(* the template is filled with.                                            *)
(***************************************************************************)
\* d[key] of a dict d kept as a record.
Item(d, key) == IF key \in DOMAIN d THEN d[key] ELSE Raise("KeyError")

\* table[key] of a percentile table.
Lookup(table, key) ==
    IF \E i \in 1..Len(table) : table[i].percentile = key
    THEN table[CHOOSE i \in 1..Len(table) : table[i].percentile = key].value
    ELSE Raise("KeyError")

\* The first exception of a sequence of values, None if there is none.
FirstExc(values) ==
    IF \E i \in 1..Len(values) : IsExc(values[i])
    THEN values[CHOOSE i \in 1..Len(values) :
                    IsExc(values[i]) /\ \A j \in 1..(i - 1) : ~IsExc(values[j])]
    ELSE None

\* max(a, b) of two floats: a unless b is greater.
fmax(a, b) == IF FLt(a, b) THEN b ELSE a

\* lines 887-888 (and 701-702)
asymmetry(left, right) == FMul(FDiv(FAbs(FSub(left, right)), fmax(left, right)), Hundred)

\* lines 891-892
asymmetry_color(a) == IF FLt(FromInt(10), a) THEN "text-red-600" ELSE "text-green-600"

\* lines 895-947: the goal rows of one metric.
GoalRows(unit_system, metric_type, targets, current, h, lm) ==
    results_data([unit_system |-> unit_system, calc_type |-> metric_type], targets, current, h, lm)

\* lines 954-976: the priority goals, in the order they are appended.
priority_goals(d, gender, low_almi, low_ffmi, arm, leg) ==
    (IF low_almi THEN <<"Increase appendicular lean mass to reach 25th percentile minimum">>
     ELSE << >>)
    \o (IF low_ffmi THEN <<"Build total lean mass to reach median population levels">>
        ELSE << >>)
    \o (IF \/ FLt(FromInt(20), d.body_fat) /\ gender = "Male"
           \/ FLt(FromInt(25), d.body_fat) /\ gender = "Female"
        THEN <<"Reduce body fat percentage for improved health">> ELSE << >>)
    \o (IF FLt(FromInt(10), arm) \/ FLt(FromInt(10), leg)
        THEN <<"Address muscle imbalances between limbs">> ELSE << >>)
    \o (IF "vat_mass" \in DOMAIN d /\ FLt(FromInt(1000), d.vat_mass)
        THEN <<"Reduce visceral adipose tissue for metabolic health">> ELSE << >>)

\* lines 979-1016: the values the template is filled with.
BodyCompReport(patient_data, d, goals_data, unit_system, arm, leg, lm) ==
    [k |-> "html", report_type |-> "Body Composition Report",
     patient_name |-> patient_data.name,
     bmi |-> FDiv(d.weight, PowSquared(patient_data.height_m, lm)),
     almi |-> d.almi, ffmi |-> d.ffmi,
     left_arm |-> Shown(unit_system, d.left_arm), right_arm |-> Shown(unit_system, d.right_arm),
     left_leg |-> Shown(unit_system, d.left_leg), right_leg |-> Shown(unit_system, d.right_leg),
     arm_asymmetry |-> arm, leg_asymmetry |-> leg,
     arm_color |-> asymmetry_color(arm), leg_color |-> asymmetry_color(leg),
     almi_goals |-> GoalRows(unit_system, "ALMI", goals_data.almi_targets, d.almi,
                             patient_data.height_m, lm),
     ffmi_goals |-> GoalRows(unit_system, "FFMI", goals_data.ffmi_targets, d.ffmi,
                             patient_data.height_m, lm),
     priority_goals |->
        priority_goals(d, patient_data.gender,
                       FLt(d.almi, Lookup(goals_data.almi_targets, "25th percentile")),
                       FLt(d.ffmi, Lookup(goals_data.ffmi_targets, "50th percentile")),
                       arm, leg)]

\* What ends the function early, in the order the body reads and computes:
\* lines 861-875 weight, alm and the limbs; 878 the BMI; 881-888 the shares
\* and asymmetries; 897 almi; 924 ffmi; 954 and 959 the two targets; 963
\* body_fat.
BodyCompRaised(patient_data, d, goals_data, lm) ==
    FirstExc(<<Item(d, "weight"), Item(d, "alm"), Item(d, "left_arm"), Item(d, "right_arm"),
               Item(d, "left_leg"), Item(d, "right_leg"),
               IF "weight" \in DOMAIN d
               THEN FDiv(d.weight, PowSquared(patient_data.height_m, lm)) ELSE None,
               IF {"alm", "left_arm"} \subseteq DOMAIN d THEN FDiv(d.left_arm, d.alm) ELSE None,
               IF {"left_arm", "right_arm"} \subseteq DOMAIN d
               THEN asymmetry(d.left_arm, d.right_arm) ELSE None,
               IF {"left_leg", "right_leg"} \subseteq DOMAIN d
               THEN asymmetry(d.left_leg, d.right_leg) ELSE None,
               Item(d, "almi"), Item(d, "ffmi"),
               Lookup(goals_data.almi_targets, "25th percentile"),
               Lookup(goals_data.ffmi_targets, "50th percentile"),
               Item(d, "body_fat")>>)

generate_body_comp_report_html(patient_data, body_comp_data, goals_data, unit_system, lm) ==
    IF IsExc(BodyCompRaised(patient_data, body_comp_data, goals_data, lm))
    THEN BodyCompRaised(patient_data, body_comp_data, goals_data, lm)
    ELSE BodyCompReport(patient_data, body_comp_data, goals_data, unit_system,
                        asymmetry(body_comp_data.left_arm, body_comp_data.right_arm),
                        asymmetry(body_comp_data.left_leg, body_comp_data.right_leg), lm)

(***************************************************************************)
(* Report generation on the analysis page (main, lines 1509-1594).         *)
(***************************************************************************)
\* lines 1528-1535.  The age is left out: it depends on the day of the run.
patient_data(w, h) ==
    [name |-> w.patient_name, dob |-> "01/01/1990", gender |-> w.gender, height_m |-> h,
     height_display |-> <<w.height, IF w.unit_system = "Metric" THEN "cm" ELSE "in">>]

\* sum(limb_data.values()): 0 + left_arm + right_arm + left_leg + right_leg
LimbSum(limbs) ==
    calculate_alm_from_limbs(limbs.left_arm, limbs.right_arm, limbs.left_leg, limbs.right_leg)

\* lines 1540-1551: the dict built when scan_data is empty.
default_scan_data(w, cm, limbs, h, lm) ==
    [k |-> "dict", weight |-> FromInt(70), body_fat |-> FromInt(15), alm |-> LimbSum(limbs),
     almi |-> IF w.calc_type = "ALMI" THEN cm ELSE calculate_almi_from_alm(LimbSum(limbs), h, lm),
     ffmi |-> IF w.calc_type = "FFMI" THEN cm
              ELSE calculate_ffmi_from_weight_bf(FromInt(70), FromInt(15), h, lm),
     left_arm |-> limbs.left_arm, right_arm |-> limbs.right_arm,
     left_leg |-> limbs.left_leg, right_leg |-> limbs.right_leg, vat_mass |-> FromInt(450)]

\* lines 1538-1551: the data handed to the body composition report.
body_comp_data(w, cm, limbs, scan, h, lm) ==
    IF scan = None THEN default_scan_data(w, cm, limbs, h, lm) ELSE scan

\* lines 1554-1559
goals_data(gender) ==
    [almi_targets |-> get_percentile_targets(gender, "ALMI"),
     ffmi_targets |-> get_percentile_targets(gender, "FFMI")]

\* lines 1567-1571: mock T-scores.
bmd_data == [left_femur_t |-> Dec(12, 1), right_femur_t |-> Dec(14, 1), spine_t |-> Dec(8, 1)]

\* line 1524: if current_metric and limb_data
report_ready(cm, limbs) == Truthy(cm) /\ limbs # None

\* lines 1523-1582: what "Generate Report" gives: None when it was not
\* pressed, the error message, the report, or the exception a generator
\* raised.
html_report(w, cm, limbs, scan, h, lm) ==
    IF ~w.generate_report THEN None
    ELSE IF ~report_ready(cm, limbs)
    THEN [k |-> "error", message |-> "Please complete the body composition analysis first."]
    ELSE IF w.report_type = "Body Composition Report"
    THEN generate_body_comp_report_html(patient_data(w, h),
                                        body_comp_data(w, cm, limbs, scan, h, lm),
                                        goals_data(w.gender), w.unit_system, lm)
    ELSE generate_bmd_report_html(patient_data(w, h), bmd_data, w.unit_system)

\* report_type.lower().replace(' ', '_')
FileStem(report_type) ==
    IF report_type = "Body Composition Report" THEN "body_composition_report"
    ELSE "bmd_analysis_report"

\* patient_name.replace(' ', '_') for the names the model types.
Underscored(patient_name) ==
    IF patient_name = "John Doe" THEN "John_Doe"
    ELSE IF patient_name = "Ann Lee" THEN "Ann_Lee"
    ELSE patient_name

\* line 1578
report_filename(report_type, patient_name) ==
    <<FileStem(report_type), "_", Underscored(patient_name), ".html">>

\* A variant that stores whatever the click gave, the error message too.
StoreReport_onAnyClick(session, w, report) ==
    IF report # None
    THEN [key \in DOMAIN session \cup {"generated_report", "report_filename"} |->
            IF key = "generated_report" THEN report
            ELSE IF key = "report_filename" THEN report_filename(w.report_type, w.patient_name)
            ELSE session[key]]
    ELSE session

\* A variant that drops the stored report when the click gave the error.
StoreReport_clearedOnError(session, w, report) ==
    IF report.k = "html"
    THEN [key \in DOMAIN session \cup {"generated_report", "report_filename"} |->
            IF key = "generated_report" THEN report
            ELSE IF key = "report_filename" THEN report_filename(w.report_type, w.patient_name)
            ELSE session[key]]
    ELSE IF report.k = "error" THEN NoSession
    ELSE session

\* lines 1576-1578: a generated report and its file name are stored.
StoreReport(session, w, report) ==
    IF report.k = "html"
    THEN [key \in DOMAIN session \cup {"generated_report", "report_filename"} |->
            IF key = "generated_report" THEN report
            ELSE IF key = "report_filename" THEN report_filename(w.report_type, w.patient_name)
            ELSE session[key]]
    ELSE session

\* lines 1586-1594: the download link, and the preview when its button was
\* pressed, of the report the session holds.
ReportSection(session, w, report) ==
    [limb_chart |-> None,
     report |-> report,
     download |-> IF "generated_report" \in DOMAIN session
                  THEN [k |-> "link", content |-> session["generated_report"],
                        filename |-> session["report_filename"], label |-> w.report_type]
                  ELSE None,
     preview |-> IF "generated_report" \in DOMAIN session /\ w.preview
                 THEN session["generated_report"] ELSE None]

\* The page after the whole run, or the exception that ended it: one raised
\* above the report section, or one a report generator raised.
PageWithReports(page, limbs, report, section) ==
    IF IsExc(page) THEN page
    ELSE IF IsExc(report) THEN report
    ELSE [k |-> "page", height_m |-> page.height_m, alm |-> page.alm,
          current_metric |-> page.current_metric, scan_data |-> page.scan_data,
          target |-> page.target, limb_data |-> limbs, report |-> section.report,
          download |-> section.download, preview |-> section.preview]

\* One script run of the page with the widget values w.
RunAnalysis(w) ==
    \E h \in {HeightM(w.unit_system, w.height)}, alm \in {total_alm(w)} :
        \E cm \in {current_metric(w, alm, h, libm)}, limbs \in {limb_data(w, alm, h, libm)} :
            \E page \in {AnalysisPage(w, h, alm, cm, limbs, libm)} :
                \E report \in {IF IsExc(page) THEN None
                               ELSE html_report(w, cm, limbs, page.scan_data, h, libm)} :
                    \E session \in {IF IsExc(report) THEN session_state
                                    ELSE StoreReport(session_state, w, report)} :
                        /\ session_state' = session
                        /\ val' = PageWithReports(page, limbs, report,
                                                  ReportSection(session, w, report))

LimbAnalysis ==
    /\ inp.fn = "main"
    /\ inp.input_method = "Limb-Specific Analysis"
    /\ ops = << >>
    /\ RunAnalysis(inp)
    /\ ops' = <<"main">>
    /\ UNCHANGED <<libm, inp>>

SpecAnalysis == InitAnalysis /\ [][LimbAnalysis]_vars

\* How many times the user changes a widget, each change a new script run.
MaxReruns == 2

\* The widget values the reruns move between: the Percentile Goals of a
\* directly entered index, in Metric units.
RerunInputs ==
    {AnalysisRun("Metric", h, g, c[1], "Direct ALMI/FFMI", c[2], NoLimbs, None, None,
                 "Percentile Goals", None) :
        h \in {Dec(1700, 1)}, g \in {"Male", "Female"},
        c \in ({"ALMI"} \X AlmiValues) \cup ({"FFMI"} \X FfmiValues)}

InitReruns ==
    /\ session_state = NoSession
    /\ libm \in LibmModes
    /\ inp \in RerunInputs
    /\ ops = << >>
    /\ val = None

\* Streamlit runs main again, from the top, with the widgets' new values;
\* nothing of the previous run is kept.
Rerun ==
    /\ ops # << >>
    /\ Len(ops) <= MaxReruns
    /\ inp.fn = "main"
    /\ inp.input_method = "Limb-Specific Analysis"
    /\ \E w \in RerunInputs :
          /\ inp' = w
          /\ RunAnalysis(w)
    /\ ops' = Append(ops, "main")
    /\ UNCHANGED libm

NextReruns == LimbAnalysis \/ Rerun

SpecReruns == InitReruns /\ [][NextReruns]_vars

\* Both pages of main.
NextPages == CallRecomp \/ RecompPlanning \/ LimbAnalysis

InitPages == InitRecomp \/ InitAnalysis

SpecPages == InitPages /\ [][NextPages]_vars

(***************************************************************************)
(* The report section over several script runs: st.session_state is all    *)
(* that one run leaves to the next.                                        *)
(***************************************************************************)
MaxSessionRuns == 2

\* One analysis per input method and index type, on a 170 cm patient: a
\* typed ALMI and FFMI, limb masses with arms of 3.2 and 4.0 kg, and a
\* weight of 70 kg at 15 % body fat.
SessionAnalyses ==
    {AnalysisRun("Metric", Dec(1700, 1), "Male", "ALMI", "Direct ALMI/FFMI", Dec(65, 1),
                 NoLimbs, None, None, "Visual Analysis", None),
     AnalysisRun("Metric", Dec(1700, 1), "Male", "FFMI", "Direct ALMI/FFMI", Dec(180, 1),
                 NoLimbs, None, None, "Visual Analysis", None)}
    \cup {AnalysisRun("Metric", Dec(1700, 1), "Female", c, "Individual Limb Masses", None,
                      <<Dec(32, 1), Dec(40, 1), Dec(82, 1), Dec(85, 1)>>, None, None,
                      "Visual Analysis", None) : c \in {"ALMI", "FFMI"}}
    \cup {AnalysisRun("Metric", Dec(1700, 1), "Male", c, "From Weight & Body Fat", None,
                      NoLimbs, Dec(700, 1), Dec(150, 1), "Visual Analysis", None) :
            c \in {"ALMI", "FFMI"}}

\* Each analysis as it is and with "Generate Report" pressed for either
\* report type; the typed-index analyses also with "Preview Report" pressed
\* and with a report for a second patient.
SessionInputs ==
    SessionAnalyses
    \cup {WithReport(w, t, "John Doe") :
            w \in SessionAnalyses, t \in {"Body Composition Report", "BMD Analysis Report"}}
    \cup {[w EXCEPT !.preview = TRUE] :
            w \in {v \in SessionAnalyses : v.input_type = "Direct ALMI/FFMI"}}
    \cup {WithReport(w, "BMD Analysis Report", "Ann Lee") :
            w \in {v \in SessionAnalyses : v.input_type = "Direct ALMI/FFMI"}}

InitSession ==
    /\ session_state = NoSession
    /\ libm \in LibmModes
    /\ inp \in SessionInputs
    /\ ops = << >>
    /\ val = None

RerunSession ==
    /\ ops # << >>
    /\ Len(ops) <= MaxSessionRuns
    /\ inp.fn = "main"
    /\ inp.input_method = "Limb-Specific Analysis"
    /\ \E w \in SessionInputs :
          /\ inp' = w
          /\ RunAnalysis(w)
    /\ ops' = Append(ops, "main")
    /\ UNCHANGED libm

NextSession == LimbAnalysis \/ RerunSession

SpecSession == InitSession /\ [][NextSession]_vars

(***************************************************************************)
(* The pure calculators.  A run draws its inputs, then applies functions   *)
(* to the value so far, at most MaxCalls of them; an exception ends it.    *)
(***************************************************************************)
Apply(kind, name, result) ==
    /\ inp.fn = kind
    /\ Len(ops) < MaxCalls
    /\ ~IsExc(val)
    /\ val' = result
    /\ ops' = Append(ops, name)
    /\ UNCHANGED <<libm, inp, session_state>>

InitUnits ==
    /\ session_state = NoSession
    /\ libm = "even"
    /\ inp \in [fn : {"units"}, x : UnitValues]
    /\ ops = << >>
    /\ val = inp.x

Call_lbs_to_kg == Apply("units", "lbs_to_kg", lbs_to_kg(val))

Call_kg_to_lbs == Apply("units", "kg_to_lbs", kg_to_lbs(val))

Call_inches_to_m == Apply("units", "inches_to_m", inches_to_m(val))

Call_m_to_inches == Apply("units", "m_to_inches", m_to_inches(val))

NextUnits == Call_lbs_to_kg \/ Call_kg_to_lbs \/ Call_inches_to_m \/ Call_m_to_inches

SpecUnits == InitUnits /\ [][NextUnits]_vars

InitIndex ==
    /\ session_state = NoSession
    /\ libm \in LibmModes
    /\ inp \in [fn : {"index"}, x : Indices, height_m : Heights]
               \cup [fn : {"calculate_ffmi_from_weight_bf"}, weight_kg : FfmiWeights,
                     body_fat_pct : FfmiBodyFats, height_m : Heights]
    /\ ops = << >>
    /\ val = IF inp.fn = "index" THEN inp.x ELSE None

Call_almi_from_alm ==
    Apply("index", "calculate_almi_from_alm", calculate_almi_from_alm(val, inp.height_m, libm))

Call_alm_from_almi ==
    Apply("index", "calculate_alm_from_almi", calculate_alm_from_almi(val, inp.height_m, libm))

Call_ffmi_from_ffm ==
    Apply("index", "calculate_ffmi_from_ffm", calculate_ffmi_from_ffm(val, inp.height_m, libm))

Call_ffm_from_ffmi ==
    Apply("index", "calculate_ffm_from_ffmi", calculate_ffm_from_ffmi(val, inp.height_m, libm))

Call_ffmi_from_weight_bf ==
    /\ inp.fn = "calculate_ffmi_from_weight_bf"
    /\ ops = << >>
    /\ val' = calculate_ffmi_from_weight_bf(inp.weight_kg, inp.body_fat_pct,
                                            inp.height_m, libm)
    /\ ops' = <<"calculate_ffmi_from_weight_bf">>
    /\ UNCHANGED <<libm, inp, session_state>>

NextIndex ==
    \/ Call_almi_from_alm
    \/ Call_alm_from_almi
    \/ Call_ffmi_from_ffm
    \/ Call_ffm_from_ffmi
    \/ Call_ffmi_from_weight_bf

SpecIndex == InitIndex /\ [][NextIndex]_vars

\* The 24 orders in which four arguments can be passed.
Perms == {p \in [1..4 -> 1..4] : \A i, j \in 1..4 : i # j => p[i] # p[j]}

InitLimbs ==
    /\ session_state = NoSession
    /\ libm = "even"
    /\ inp \in [fn : {"calculate_alm_from_limbs"}, left_arm : LeftArms,
                right_arm : RightArms, left_leg : LeftLegs, right_leg : RightLegs,
                perm : Perms]
    /\ ops = << >>
    /\ val = None

\* The four limb masses in the order inp.perm passes them.
Limbs == <<inp.left_arm, inp.right_arm, inp.left_leg, inp.right_leg>>

Passed(i) == Limbs[inp.perm[i]]

Call_alm_from_limbs ==
    /\ inp.fn = "calculate_alm_from_limbs"
    /\ ops = << >>
    /\ val' = calculate_alm_from_limbs(Passed(1), Passed(2), Passed(3), Passed(4))
    /\ ops' = <<"calculate_alm_from_limbs">>
    /\ UNCHANGED <<libm, inp, session_state>>

NextLimbs == Call_alm_from_limbs

SpecLimbs == InitLimbs /\ [][NextLimbs]_vars

(***************************************************************************)
(* The calculation functions called one after another, in any order, in a  *)
(* session that may already hold a report.  Here ops keeps each call with  *)
(* the result it gave.                                                     *)
(***************************************************************************)
MaxPureCalls == 3

\* A session that holds a report stored by an earlier run.
StoredSession ==
    [key \in {"generated_report", "report_filename"} |->
        IF key = "generated_report" THEN [k |-> "html", report_type |-> "BMD Analysis Report"]
        ELSE <<"bmd_analysis_report", "John_Doe", ".html">>]

\* Calls of the functions of lines 437-537, with their arguments.
PureCalls ==
    [fn : {"lbs_to_kg", "kg_to_lbs", "inches_to_m", "m_to_inches"}, x : UnitValues]
    \cup [fn : {"calculate_almi_from_alm", "calculate_alm_from_almi",
                "calculate_ffmi_from_ffm", "calculate_ffm_from_ffmi"},
          x : Indices, height_m : Heights]
    \cup [fn : {"calculate_ffmi_from_weight_bf"}, weight_kg : FfmiWeights,
          body_fat_pct : FfmiBodyFats, height_m : Heights]
    \cup [fn : {"calculate_alm_from_limbs"}, left_arm : LeftArms, right_arm : RightArms,
          left_leg : LeftLegs, right_leg : RightLegs]
    \cup [fn : {"calculate_body_recomp"}, current_weight : Weights,
          current_bf_pct : BodyFats, target_lean_gain : LeanGains,
          target_fat_loss : {Dec(80, 1)}, target_vat_loss : {One}]
    \cup [fn : {"get_percentile_targets"}, gender : {"Male", "Female"},
          metric_type : {"ALMI", "FFMI"}]

\* The calls that may come between two calls with the same arguments.
OtherCalls ==
    {[fn |-> "kg_to_lbs", x |-> Dec(700, 1)],
     [fn |-> "calculate_alm_from_almi", x |-> Dec(75, 1), height_m |-> Dec(180, 2)]}

\* A variant in which lbs_to_kg answers from a cache that any call fills.
PureResult_cached(c, lm) ==
    CASE c.fn = "lbs_to_kg" -> IF ops # << >> THEN ops[Len(ops)].result ELSE lbs_to_kg(c.x)
      [] c.fn = "kg_to_lbs" -> kg_to_lbs(c.x)
      [] c.fn = "inches_to_m" -> inches_to_m(c.x)
      [] c.fn = "m_to_inches" -> m_to_inches(c.x)
      [] c.fn = "calculate_almi_from_alm" -> calculate_almi_from_alm(c.x, c.height_m, lm)
      [] c.fn = "calculate_alm_from_almi" -> calculate_alm_from_almi(c.x, c.height_m, lm)
      [] c.fn = "calculate_ffmi_from_ffm" -> calculate_ffmi_from_ffm(c.x, c.height_m, lm)
      [] c.fn = "calculate_ffm_from_ffmi" -> calculate_ffm_from_ffmi(c.x, c.height_m, lm)
      [] c.fn = "calculate_ffmi_from_weight_bf" ->
            calculate_ffmi_from_weight_bf(c.weight_kg, c.body_fat_pct, c.height_m, lm)
      [] c.fn = "calculate_alm_from_limbs" ->
            calculate_alm_from_limbs(c.left_arm, c.right_arm, c.left_leg, c.right_leg)
      [] c.fn = "calculate_body_recomp" -> RecompCall(c)
      [] c.fn = "get_percentile_targets" -> get_percentile_targets(c.gender, c.metric_type)

\* lines 437-537: what the call c returns, or the exception it raises.
PureResult(c, lm) ==
    CASE c.fn = "lbs_to_kg" -> lbs_to_kg(c.x)
      [] c.fn = "kg_to_lbs" -> kg_to_lbs(c.x)
      [] c.fn = "inches_to_m" -> inches_to_m(c.x)
      [] c.fn = "m_to_inches" -> m_to_inches(c.x)
      [] c.fn = "calculate_almi_from_alm" -> calculate_almi_from_alm(c.x, c.height_m, lm)
      [] c.fn = "calculate_alm_from_almi" -> calculate_alm_from_almi(c.x, c.height_m, lm)
      [] c.fn = "calculate_ffmi_from_ffm" -> calculate_ffmi_from_ffm(c.x, c.height_m, lm)
      [] c.fn = "calculate_ffm_from_ffmi" -> calculate_ffm_from_ffmi(c.x, c.height_m, lm)
      [] c.fn = "calculate_ffmi_from_weight_bf" ->
            calculate_ffmi_from_weight_bf(c.weight_kg, c.body_fat_pct, c.height_m, lm)
      [] c.fn = "calculate_alm_from_limbs" ->
            calculate_alm_from_limbs(c.left_arm, c.right_arm, c.left_leg, c.right_leg)
      [] c.fn = "calculate_body_recomp" -> RecompCall(c)
      [] c.fn = "get_percentile_targets" -> get_percentile_targets(c.gender, c.metric_type)

InitPure ==
    /\ libm \in LibmModes
    /\ inp \in PureCalls
    /\ ops = << >>
    /\ val = None
    /\ session_state \in {NoSession, StoredSession}

\* One call: with the arguments drawn, or one of the other calls.
CallWith(c) ==
    \E r \in {PureResult(c, libm)} :
        /\ val' = r
        /\ ops' = Append(ops, [call |-> c, result |-> r])
        /\ inp' = inp
        /\ UNCHANGED <<libm, session_state>>

CallPure == Len(ops) < MaxPureCalls /\ CallWith(inp)

CallOther == Len(ops) < MaxPureCalls /\ \E c \in OtherCalls : CallWith(c)

NextPure == CallPure \/ CallOther

SpecPure == InitPure /\ [][NextPure]_vars

(***************************************************************************)
(* Claims about the recomposition calculator, checked under SpecRecomp.    *)
(***************************************************************************)
\* What calculate_body_recomp returned in this run: the dict, or the exception.
Recomp == IF val.k = "page" THEN val.recomp ELSE val

Args == RecompArgs(inp)

Pow2(n) == Round(0, <<1>>, n)

\* |x - y| <= 2^p * scale
Within(x, y, p, scale) == FLe(FAbs(FSub(x, y)), FMul(Pow2(p), scale))

\* C1: calculate_body_recomp computes current_fat = weight * bodyfat_pct / 100,
\* current_lean = weight - current_fat, new_lean = current_lean + lean_gain,
\* new_fat = current_fat - subcut_loss - visceral_loss, new_weight = new_lean +
\* new_fat, new_bodyfat_pct = new_fat / new_weight * 100 and net_weight_change =
\* new_weight - weight (each operation a float operation, in the order the code
\* applies them; where the percentage's division raises, so does the call).
C1_RecompFormulas ==
    Done =>
        LET w   == Args.current_weight
            cf  == FMul(w, FDiv(Args.current_bf_pct, Hundred))
            cl  == FSub(w, cf)
            nl  == FAdd(cl, Args.target_lean_gain)
            nf  == FSub(FSub(cf, Args.target_fat_loss), Args.target_vat_loss)
            nw  == FAdd(nl, nf)
            pct == FMul(FDiv(nf, nw), Hundred)
        IN  IF IsExc(pct) THEN Recomp = pct
            ELSE /\ ~IsExc(Recomp)
                 /\ Recomp.current_fat = cf
                 /\ Recomp.current_lean = cl
                 /\ Recomp.new_lean = nl
                 /\ Recomp.new_fat = nf
                 /\ Recomp.new_weight = nw
                 /\ Recomp.new_bf_pct = pct
                 /\ Recomp.net_weight_change = FSub(nw, w)

\* C1's case: the page has called the function in English units with a visceral
\* loss, and a dict came back.
C1_Witness ==
    /\ Done /\ inp.fn = "main" /\ inp.unit_system = "English"
    /\ val.k = "page"
    /\ ~IsZero(inp.vat_loss)
    /\ FLt(Zero(0), val.recomp.new_fat)

\* C2: calculate_body_recomp returns a result (never raises) for every
\* combination of inputs the page's widgets accept.
C2_RecompNeverRaises == (Done /\ inp.fn = "main") => ~IsExc(val)

\* C3: when subcutaneous plus visceral loss exceeds the current fat mass the
\* call returns a negative new_fat rather than zero or an error.
C3_NegativeFatReturned ==
    (Done /\ FLt(current_fat_mass(Args.current_weight, Args.current_bf_pct),
                 FAdd(Args.target_fat_loss, Args.target_vat_loss)))
        => (~IsExc(Recomp) /\ FLt(Recomp.new_fat, Zero(0)))

\* C4 as stated: new_lean - current_lean equals lean_gain exactly.
C4_LeanGainExact ==
    (Done /\ ~IsExc(Recomp)) =>
        FEq(FSub(Recomp.new_lean, Recomp.current_lean), Args.target_lean_gain)

\* C4 as amended: new_lean is exactly the float sum current_lean + lean_gain,
\* whatever the fat-loss inputs, and new_lean - current_lean gives lean_gain back
\* up to float rounding: within 2^-51 * (|current_lean| + |lean_gain|).
C4_LeanGainRounded ==
    (Done /\ ~IsExc(Recomp)) =>
        LET w  == Args.current_weight
            cl == FSub(w, FMul(w, FDiv(Args.current_bf_pct, Hundred)))
            g  == Args.target_lean_gain
        IN  /\ Recomp.current_lean = cl
            /\ Recomp.new_lean = FAdd(cl, g)
            /\ Within(FSub(Recomp.new_lean, Recomp.current_lean), g, -51,
                      FAdd(FAbs(cl), FAbs(g)))

\* C4's case: a dict came back whose new_lean - current_lean is not lean_gain.
C4_Witness ==
    /\ Done /\ inp.fn = "main" /\ val.k = "page"
    /\ ~IsZero(Args.target_lean_gain)
    /\ ~FEq(FSub(val.recomp.new_lean, val.recomp.current_lean), Args.target_lean_gain)

ScenarioArgs ==
    [current_weight |-> FromInt(70), current_bf_pct |-> FromInt(20),
     target_lean_gain |-> FromInt(5), target_fat_loss |-> FromInt(8),
     target_vat_loss |-> One]

\* C5: weight 70 kg, body fat 20 %, lean gain 5 kg, fat loss 8 kg, visceral loss
\* 1 kg give current_fat 14, current_lean 56, new_lean 61, new_fat 5, new_weight
\* 66 and a new body fat of 5/66*100, which is 7.58 to two decimals.
C5_Scenario ==
    (Done /\ Args = ScenarioArgs) =>
        /\ ~IsExc(Recomp)
        /\ Recomp.current_fat = FromInt(14)
        /\ Recomp.current_lean = FromInt(56)
        /\ Recomp.new_lean = FromInt(61)
        /\ Recomp.new_fat = FromInt(5)
        /\ Recomp.new_weight = FromInt(66)
        /\ Recomp.new_bf_pct = FMul(FDiv(FromInt(5), FromInt(66)), Hundred)
        /\ FLe(Dec(7575, 3), Recomp.new_bf_pct)
        /\ FLt(Recomp.new_bf_pct, Dec(7585, 3))

C5_Witness == Done /\ inp.fn = "main" /\ Args = ScenarioArgs /\ val.k = "page"

(***************************************************************************)
(* Claims about the timeline of the recomposition page (SpecRecomp).       *)
(***************************************************************************)
RecompPageShown ==
    /\ Done
    /\ inp.fn = "main"
    /\ inp.input_method = "Body Recomposition Planning"
    /\ val.k = "page"

\* The page after a run in which the button was pressed.
TimelineShown == RecompPageShown /\ Len(val.timeline_data) = 3

\* C17: the timeline's number of months is capped at 120: for every gender,
\* experience level and target lean gain the widgets accept, no reported
\* number of months exceeds 120.
C17_TimelineCapped ==
    TimelineShown =>
        \A i \in 1..3 : FLe(val.timeline_data[i].timeline_months, FromInt(120))

TenLbsMaleBeginner ==
    /\ TimelineShown
    /\ inp.unit_system = "English"
    /\ inp.gender = "Male"
    /\ inp.lean_gain = FromInt(10)

\* C18: a required gain of 10 lbs for a Male Beginner gives an estimate that
\* runs from min_months = 10/9*12 (about 13.3) to max_months = 10/4*12 = 30:
\* the Beginner item's months lie between the two.
C18_TimelineScenario ==
    TenLbsMaleBeginner =>
        /\ FLe(FMul(FDiv(FromInt(10), FromInt(9)), FromInt(12)),
               val.timeline_data[1].timeline_months)
        /\ FLe(val.timeline_data[1].timeline_months,
               FMul(FDiv(FromInt(10), FromInt(4)), FromInt(12)))

\* C19: the timeline never divides by zero, raises or gives an infinite
\* value: every rate it divides by is strictly positive, every number of
\* months is a finite float, and an exception that ends the page's run is
\* calculate_body_recomp's, never the timeline's.
C19_TimelineNeverDividesByZero ==
    (Done /\ inp.fn = "main") =>
        /\ val.k = "page" =>
              \A i \in 1..Len(val.timeline_data) :
                  /\ FLt(Zero(0), val.timeline_data[i].monthly_rate_kg)
                  /\ val.timeline_data[i].timeline_months.k = "fin"
        /\ IsExc(val) => val = RecompCall(Args)

C19_Witness ==
    /\ TimelineShown
    /\ inp.gender = "Female"
    /\ FLt(Zero(0), inp.lean_gain)
    /\ FLt(FromInt(120), val.timeline_data[3].timeline_months)
    /\ val.timeline_data[3].timeline_months.k = "fin"

(***************************************************************************)
(* Claims about the index and mass calculators (SpecIndex).                *)
(***************************************************************************)
IndexRun == inp.fn = "index"

\* height_m ** 2 as this run's libm rounds it.
HeightSquared == FMulTo(inp.height_m, inp.height_m, libm)

IndexToMassAndBack ==
    /\ IndexRun
    /\ FLt(Zero(0), inp.height_m)
    /\ ops \in {<<"calculate_alm_from_almi", "calculate_almi_from_alm">>,
                <<"calculate_ffm_from_ffmi", "calculate_ffmi_from_ffm">>}

WeightBfRun == ops = <<"calculate_ffmi_from_weight_bf">>

\* weight * (1 - body_fat_pct / 100), the fat-free mass of the inputs.
InputFfm == FMul(inp.weight_kg, FSub(One, FDiv(inp.body_fat_pct, Hundred)))

FfmiIsFfmOverHeightSquared ==
    /\ val = FDiv(InputFfm, PowSquared(inp.height_m, libm))
    /\ IsExc(val) => IsZero(inp.height_m)
    /\ (/\ FLe(Zero(0), inp.body_fat_pct)
        /\ FLe(inp.body_fat_pct, Hundred)
        /\ FLe(Zero(0), inp.weight_kg))
          => FLe(Zero(0), InputFfm) /\ FLe(InputFfm, inp.weight_kg)

UnitRoundTrip ==
    ops \in {<<"lbs_to_kg", "kg_to_lbs">>, <<"kg_to_lbs", "lbs_to_kg">>,
             <<"inches_to_m", "m_to_inches">>, <<"m_to_inches", "inches_to_m">>}

\* C9: for x >= 0 the converters use the single factors 2.20462 (lbs per kg)
\* and 0.0254 (metres per inch) in both directions, and each round trip
\* (lbs -> kg -> lbs, kg -> lbs -> kg, inches -> m -> inches, m -> inches -> m)
\* returns x within a relative tolerance of 1e-6.
C9_UnitRoundTrips ==
    /\ ops = <<"lbs_to_kg">> => val = FDiv(inp.x, Dec(220462, 5))
    /\ ops = <<"kg_to_lbs">> => val = FMul(inp.x, Dec(220462, 5))
    /\ ops = <<"inches_to_m">> => val = FMul(inp.x, Dec(254, 4))
    /\ ops = <<"m_to_inches">> => val = FDiv(inp.x, Dec(254, 4))
    /\ (inp.fn = "units" /\ UnitRoundTrip)
          => ~IsExc(val) /\ Within(val, inp.x, 0, FMul(Dec(1, 6), FAbs(inp.x)))

C9_Witness ==
    /\ ops = <<"lbs_to_kg", "kg_to_lbs">>
    /\ FLt(Zero(0), inp.x)
    /\ ~IsExc(val)

(***************************************************************************)
(* Claims about the limb sum (SpecLimbs).                                  *)
(***************************************************************************)
LimbsRun == ops = <<"calculate_alm_from_limbs">>

\* The sum with the four masses passed in their declared order.
DeclaredSum ==
    FAdd(FAdd(FAdd(inp.left_arm, inp.right_arm), inp.left_leg), inp.right_leg)

AnalysisShownPage ==
    /\ Done
    /\ inp.fn = "main"
    /\ inp.input_method = "Limb-Specific Analysis"
    /\ val.k = "page"

PercentilesShown == AnalysisShownPage /\ val.target.k = "percentiles"

\* C11: for each metric type (ALMI, FFMI) and gender (Male, Female)
\* get_percentile_targets returns exactly five bands, the 5th, 25th, 50th,
\* 75th and 95th percentile in that order, with strictly ascending thresholds.
C11_FiveAscendingBands ==
    PercentilesShown =>
        /\ Len(val.target.percentiles) = 5
        /\ [i \in 1..5 |-> val.target.percentiles[i].percentile]
              = <<"5th percentile", "25th percentile", "50th percentile (median)",
                  "75th percentile", "95th percentile">>
        /\ \A i \in 1..4 :
              FLt(val.target.percentiles[i].value, val.target.percentiles[i + 1].value)

C11_Witness ==
    /\ PercentilesShown
    /\ inp.gender = "Female"
    /\ inp.calc_type = "ALMI"
    /\ Len(val.target.results_data) = 5

\* The thresholds of lines 506-537, in tenths.
ReferenceBands(gender, metric_type) ==
    CASE metric_type = "ALMI" /\ gender = "Male" -> <<68, 78, 85, 94, 108>>
      [] metric_type = "ALMI" /\ gender = "Female" -> <<52, 60, 68, 76, 88>>
      [] metric_type = "FFMI" /\ gender = "Male" -> <<165, 180, 195, 210, 235>>
      [] metric_type = "FFMI" /\ gender = "Female" -> <<145, 155, 165, 175, 190>>

TableIsReference ==
    PercentilesShown =>
        [i \in 1..Len(val.target.percentiles) |-> val.target.percentiles[i].value]
            = [i \in 1..5 |-> Dec(ReferenceBands(inp.gender, inp.calc_type)[i], 1)]

SameTableForSameArguments ==
    (/\ PercentilesShown
     /\ PercentilesShown'
     /\ inp'.gender = inp.gender
     /\ inp'.calc_type = inp.calc_type)
        => val'.target.percentiles = val.target.percentiles

Rows == val.target.results_data

Achieved(row) == row.status.text = "Achieved"

\* 1 - 2^-50: an index this close below a threshold can give the same
\* rounded mass index * height_m^2 as the threshold does.
RoundingMargin == FSub(One, Round(0, <<1>>, -50))

\* C13 as stated: in the percentile-goals listing a band is reported as
\* achieved exactly when the current index is greater than or equal to the
\* band's threshold, and as needing a positive mass otherwise.
C13_AchievedIffAtOrAbove ==
    PercentilesShown =>
        \A i \in 1..Len(Rows) :
            /\ Achieved(Rows[i]) <=> FLe(Rows[i].target_value, val.current_metric)
            /\ Achieved(Rows[i]) => FEq(Rows[i].mass_needed, Zero(0))
            /\ ~Achieved(Rows[i]) => FLt(Zero(0), Rows[i].mass_needed)

\* C13 as amended: a band is reported as achieved, with mass needed 0,
\* whenever the current index is greater than or equal to the band's
\* threshold (equality counts), and never when the index is below the
\* threshold by more than a rounding error (a relative 2^-50); a band that is
\* not achieved needs a positive mass; an index below every threshold by
\* more than that margin achieves no band.
C13_AchievedAtOrAboveUpToRounding ==
    PercentilesShown =>
        \A i \in 1..Len(Rows) :
            /\ FLe(Rows[i].target_value, val.current_metric) => Achieved(Rows[i])
            /\ Achieved(Rows[i]) =>
                  /\ FEq(Rows[i].mass_needed, Zero(0))
                  /\ FLe(FMul(Rows[i].target_value, RoundingMargin), val.current_metric)
            /\ ~Achieved(Rows[i]) => FLt(Zero(0), Rows[i].mass_needed)

\* The index equals the third threshold: three bands achieved, two not.
C13_Witness ==
    /\ PercentilesShown
    /\ Len(Rows) = 5
    /\ FEq(val.current_metric, Rows[3].target_value)
    /\ \A i \in 1..3 : Achieved(Rows[i])
    /\ \A i \in 4..5 : ~Achieved(Rows[i])

\* The number of bands reported as achieved.
NumAchieved(rows) == Cardinality({i \in 1..Len(rows) : Achieved(rows[i])})

\* The achieved bands are the lowest ones: the highest achieved band is
\* band NumAchieved and the next band to reach is the one after it.
AchievedIsPrefix ==
    PercentilesShown =>
        \A i \in 1..Len(Rows) : Achieved(Rows[i]) <=> i <= NumAchieved(Rows)

\* From one script run to the next with the same table and height and an
\* index that is not lower, every achieved band stays achieved.
AchievedOnlyGrows ==
    (/\ PercentilesShown
     /\ PercentilesShown'
     /\ inp'.gender = inp.gender
     /\ inp'.calc_type = inp.calc_type
     /\ inp'.height = inp.height
     /\ FLe(val.current_metric, val'.current_metric))
        => /\ Len(val'.target.results_data) = Len(Rows)
           /\ \A i \in 1..Len(Rows) :
                 Achieved(Rows[i]) => Achieved(val'.target.results_data[i])
           /\ NumAchieved(Rows) <= NumAchieved(val'.target.results_data)

\* C14: band lookup is monotonic: for a fixed table and positive height the
\* achieved bands are always a prefix of the ascending table, and raising the
\* index never lowers the highest achieved band nor the next band to reach:
\* the achieved set only grows.
C14_BandLookupMonotonic == []AchievedIsPrefix /\ [][AchievedOnlyGrows]_vars

\* A rerun after which some but not all bands are achieved.
C14_Witness ==
    /\ PercentilesShown
    /\ Len(ops) >= 2
    /\ NumAchieved(Rows) \in 1..4

SpecificShown == AnalysisShownPage /\ val.target.k = "specific"

\* x rounds to the decimal n / 10^k: it lies within half a unit of its last digit.
RoundsTo(x, n, k) == FLe(Dec(10 * n - 5, k + 1), x) /\ FLt(x, Dec(10 * n + 5, k + 1))

\* Current ALMI 6.5 and target ALMI 7.5 at a height of 1.70 m to the millimetre.
ScenarioShown ==
    /\ SpecificShown
    /\ inp.calc_type = "ALMI"
    /\ val.current_metric = Dec(65, 1)
    /\ inp.target_metric = Dec(75, 1)
    /\ RoundsTo(val.height_m, 170, 2)

\* C15: with height 1.70 m, current ALMI 6.5 and target ALMI 7.5 the current
\* mass is 6.5 * 1.7^2, which is 18.785 kg to three decimals, the target mass
\* is 7.5 * 1.7^2, 21.675 kg, and the page asks to gain the difference,
\* 2.89 kg to two decimals, shown as 6.37 lbs in English units.
C15_SpecificTargetScenario ==
    ScenarioShown =>
        /\ val.target.message.text = "Gain"
        /\ RoundsTo(val.target.mass_needed, 289, 2)
        /\ inp.unit_system = "Metric" => val.target.message.amount = val.target.mass_needed
        /\ inp.unit_system = "English" => RoundsTo(val.target.message.amount, 637, 2)
        /\ val.height_m = Dec(170, 2) =>
              /\ val.target.current_mass = FMul(Dec(65, 1), PowSquared(Dec(170, 2), libm))
              /\ val.target.target_mass = FMul(Dec(75, 1), PowSquared(Dec(170, 2), libm))
              /\ RoundsTo(val.target.current_mass, 18785, 3)
              /\ RoundsTo(val.target.target_mass, 21675, 3)

C15_Witness == ScenarioShown /\ inp.unit_system = "Metric" /\ val.height_m = Dec(170, 2)

\* The page derived its index from weight and body-fat percentage.
FromWeightShown ==
    /\ AnalysisShownPage
    /\ inp.input_type = "From Weight & Body Fat"
    /\ inp.calc_type = "ALMI"

\* weight * (1 - bodyfat_pct / 100), from the widget values.
FatFreeOfInput ==
    FMul(ToKg(inp.unit_system, inp.weight), FSub(One, FDiv(inp.body_fat_pct, Hundred)))

\* C20: when ALMI is derived from weight and body-fat percentage, the
\* appendicular lean mass is the fat-free mass weight * (1 - bodyfat_pct/100)
\* times the constant 0.75 (which is exactly 3/4 as a float; the product is
\* one float multiplication), and the ALMI shown is that estimate divided by
\* height_m^2.
C20_AlmiFromWeightBf ==
    FromWeightShown =>
        /\ FMul(Dec(75, 2), FromInt(4)) = FromInt(3)
        /\ val.alm = FMul(FatFreeOfInput, Dec(75, 2))
        /\ val.scan_data.alm = val.alm
        /\ val.current_metric = FDiv(val.alm, PowSquared(val.height_m, libm))
        /\ FLt(val.alm, FatFreeOfInput)

C20_Witness ==
    /\ FromWeightShown
    /\ FLt(Zero(0), val.current_metric)
    /\ inp.unit_system = "English"

AlreadyReached == val.target.message.text = "Target already reached!"

\* C16: when the mass needed is less than or equal to 0 the result is
\* "already achieved" with zero time: the specific-target page reports the
\* target as already reached exactly when the mass needed is not positive,
\* which is the case whenever the target index is at or below the current
\* index, and a lean-gain target of 0 gives a timeline of 0 months at every
\* experience level.
C16_AlreadyAchieved ==
    /\ SpecificShown =>
          /\ AlreadyReached <=> FLe(val.target.mass_needed, Zero(0))
          /\ FLe(inp.target_metric, val.current_metric) => AlreadyReached
          /\ AlreadyReached => val.target.message.amount = None
    /\ (TimelineShown /\ IsZero(inp.lean_gain)) =>
          \A i \in 1..3 : IsZero(val.timeline_data[i].timeline_months)

\* The target index equals the current index.
C16_Witness ==
    /\ SpecificShown
    /\ inp.target_metric = val.current_metric
    /\ AlreadyReached

\* Every two calls of the run that had the same arguments gave the same result.
SameArgumentsSameResult ==
    \A i, j \in 1..Len(ops) : ops[i].call = ops[j].call => ops[i].result = ops[j].result

\* A call leaves the session state, the arguments drawn and the platform as
\* they were.
CallChangesNothingElse ==
    /\ session_state' = session_state
    /\ inp' = inp
    /\ libm' = libm

BmdShown == Done /\ inp.fn = "generate_bmd_report_html" /\ val.k = "html"

Sites == <<val.left_femur, val.right_femur, val.spine>>

\* The interpretation the report prints (lines 183-187).
PrintedStatus(t) ==
    IF FLe(Dec(-10, 1), t) THEN "Normal"
    ELSE IF FLe(t, Dec(-25, 1)) THEN "Osteoporosis"
    ELSE "Osteopenia"

\* C22: the BMD status follows the interpretation printed in the report: a
\* T-score of -1.0 or above is Normal, one between -1.0 and -2.5 is
\* Osteopenia, and one of -2.5 or below, -2.5 included, is Osteoporosis.
C22_StatusAsPrinted ==
    BmdShown => \A i \in 1..3 : Sites[i].status = PrintedStatus(Sites[i].t)

\* C29: the overall assessment agrees with the per-site statuses: normal
\* bone density at all sites exactly when all three sites are Normal,
\* osteoporosis exactly when at least one site is Osteoporosis, and
\* osteopenia otherwise.
C29_OverallAgreesWithSites ==
    BmdShown =>
        val.overall_assessment =
            IF \A i \in 1..3 : Sites[i].status = "Normal"
            THEN "Excellent bone health with normal bone density at all measured sites."
            ELSE IF \E i \in 1..3 : Sites[i].status = "Osteoporosis"
            THEN "Osteoporosis detected. Medical evaluation and treatment planning recommended."
            ELSE "Mild bone loss (osteopenia) detected. Early intervention recommended."

\* One site of each status.
C29_Witness ==
    /\ BmdShown
    /\ val.left_femur.status = "Normal"
    /\ val.right_femur.status = "Osteopenia"
    /\ val.spine.status = "Osteoporosis"
    /\ val.overall_assessment
          = "Osteoporosis detected. Medical evaluation and treatment planning recommended."

\* The marker at position p lies in the band b of the chart.
InBand(p, b) == FLe(b.bottom, p) /\ FLe(p, FAdd(b.bottom, b.height))

\* The legend of a band says what the status text says; the High Density
\* band is part of Normal.
LegendAgrees(legend, text) ==
    \/ legend = text
    \/ legend = "High Density" /\ text = "Normal"

\* C30: for every T-score in [-4, 4] the marker position (t + 4) / 8 * 100
\* lies in [0, 100] and falls inside a coloured band whose legend is
\* consistent with the status text computed for that T-score.
C30_MarkerInBandOfStatus ==
    BmdShown =>
        \A i \in 1..3 :
            (FLe(FromInt(-4), Sites[i].t) /\ FLe(Sites[i].t, FromInt(4))) =>
                /\ FLe(Zero(0), Sites[i].position)
                /\ FLe(Sites[i].position, Hundred)
                /\ \E b \in 1..Len(ChartBands) :
                      /\ InBand(Sites[i].position, ChartBands[b])
                      /\ LegendAgrees(ChartBands[b].legend, Sites[i].status)

(***************************************************************************)
(* Claims about the report section of the analysis page.                   *)
(***************************************************************************)
AnalysisRan == Done /\ inp.fn = "main" /\ inp.input_method = "Limb-Specific Analysis"

ScanFields == {"weight", "body_fat", "alm", "left_arm", "right_arm", "left_leg", "right_leg"}

\* C24: choosing the "From Weight & Body Fat" input method computes the
\* current metric and stores the scan data (weight, body_fat, alm and the
\* four limb masses) without raising, for both calculation types.
C24_WeightBfStoresScanData ==
    (AnalysisRan /\ inp.input_type = "From Weight & Body Fat") =>
        /\ val.k = "page"
        /\ val.scan_data # None
        /\ ScanFields \subseteq DOMAIN val.scan_data

\* The widget values of the run as the page derives its data from them.
PageHeight == HeightM(inp.unit_system, inp.height)

PageMetric == current_metric(inp, total_alm(inp), PageHeight, libm)

PageLimbs == limb_data(inp, total_alm(inp), PageHeight, libm)

\* "Generate Report" ran the body composition branch.
BodyCompBranchRan ==
    /\ AnalysisRan
    /\ inp.generate_report
    /\ inp.report_type = "Body Composition Report"
    /\ ~IsExc(AnalysisPage(inp, PageHeight, total_alm(inp), PageMetric, PageLimbs, libm))
    /\ report_ready(PageMetric, PageLimbs)

\* The dict the branch hands to generate_body_comp_report_html.
HandedData ==
    body_comp_data(inp, PageMetric, PageLimbs, scan_data(inp, total_alm(inp), PageLimbs),
                   PageHeight, libm)

ReportFields == ScanFields \cup {"almi", "ffmi"}

\* C25: whenever "Generate Report" runs the Body Composition Report branch,
\* the data handed to the generator contains every field the generator
\* reads, whichever input method produced it.
C25_ReportDataComplete == BodyCompBranchRan => ReportFields \subseteq DOMAIN HandedData

\* C26: the current metric is an index of the selected calculation type:
\* with calc_type FFMI the value used as the current FFMI is the typed FFMI
\* (direct input) and never an ALMI computed from limb masses.
C26_MetricOfSelectedType ==
    (AnalysisShownPage /\ inp.calc_type = "FFMI") =>
        /\ inp.input_type = "Direct ALMI/FFMI" => val.current_metric = inp.current
        /\ inp.input_type = "Individual Limb Masses" =>
              val.current_metric # calculate_almi_from_alm(val.alm, val.height_m, libm)

ReportStored == "generated_report" \in DOMAIN session_state

\* This run generated a report and the session holds it under both keys.
GeneratedNow ==
    /\ AnalysisRan
    /\ inp.generate_report
    /\ val.k = "page"
    /\ val.report.k = "html"
    /\ DOMAIN session_state = {"generated_report", "report_filename"}
    /\ session_state["generated_report"] = val.report
    /\ session_state["report_filename"] = report_filename(inp.report_type, inp.patient_name)

\* C27: across any sequence of reruns the session holds "generated_report"
\* if and only if it holds "report_filename"; a run changes the session only
\* by generating a report, which writes both; a generated report is always
\* stored; and the download link and the preview are shown only while a
\* report is stored.
C27_ReportAndFilenameTogether ==
    /\ [](ReportStored <=> "report_filename" \in DOMAIN session_state)
    /\ []((AnalysisRan /\ val.k = "page") =>
            /\ val.report.k = "html" => GeneratedNow
            /\ val.download # None <=> ReportStored
            /\ val.preview # None => ReportStored
            /\ val.download # None =>
                  /\ val.download.content = session_state["generated_report"]
                  /\ val.download.filename = session_state["report_filename"])
    /\ [][session_state' # session_state => GeneratedNow']_vars

\* A later run that generates nothing still offers the stored report.
C27_Witness ==
    /\ AnalysisRan
    /\ Len(ops) > 1
    /\ ~inp.generate_report
    /\ val.k = "page"
    /\ ReportStored
    /\ val.download.filename = <<"bmd_analysis_report", "_", "Ann_Lee", ".html">>
    /\ val.preview = session_state["generated_report"]

\* "Generate Report" was pressed with direct FFMI input, which yields no
\* limb data.
ClickedDirectFfmi ==
    /\ AnalysisRan
    /\ inp.generate_report
    /\ inp.input_type = "Direct ALMI/FFMI"
    /\ inp.calc_type = "FFMI"

\* "Generate Report" was pressed on a page whose current metric or limb
\* data is missing.
ClickedIncomplete ==
    /\ AnalysisRan
    /\ inp.generate_report
    /\ val.k = "page"
    /\ ~(Truthy(val.current_metric) /\ val.limb_data # None)

CompleteFirst ==
    [k |-> "error", message |-> "Please complete the body composition analysis first."]

\* C28: a "Generate Report" click when the current metric or the limb data
\* is missing (direct FFMI input, which yields no limb data) reports "Please
\* complete the body composition analysis first." and leaves the session
\* state as it was.
C28_IncompleteClickKeepsSession ==
    [][/\ ClickedDirectFfmi' => (val'.k = "page" /\ val'.limb_data = None)
       /\ ClickedIncomplete' => (val'.report = CompleteFirst /\ session_state' = session_state)
      ]_vars

\* The click came after an earlier run had stored a report, which the page
\* still offers.
C28_Witness ==
    /\ ClickedDirectFfmi
    /\ ClickedIncomplete
    /\ val.report = CompleteFirst
    /\ ReportStored
    /\ val.download.content = session_state["generated_report"]

\* "Generate Report" was pressed for a body composition report on limb
\* masses the user typed.
LimbReportAsked ==
    /\ AnalysisRan
    /\ inp.generate_report
    /\ inp.report_type = "Body Composition Report"
    /\ inp.input_type = "Individual Limb Masses"

\* |left - right| / max(left, right) * 100 of two typed masses.
Imbalance(left, right) ==
    FMul(FDiv(FAbs(FSub(left, right)), IF FLt(left, right) THEN right ELSE left), Hundred)

ArmImbalance == Imbalance(ToKg(inp.unit_system, inp.left_arm), ToKg(inp.unit_system, inp.right_arm))

LegImbalance == Imbalance(ToKg(inp.unit_system, inp.left_leg), ToKg(inp.unit_system, inp.right_leg))

ImbalanceGoal == "Address muscle imbalances between limbs"

\* C23: limb asymmetry is |left - right| / max(left, right) * 100, the
\* same with left and right swapped, 0 exactly when the two are equal and
\* in [0, 100); the report flags it (red colour, and the "Address muscle
\* imbalances" priority goal) exactly when it is strictly greater than 10.
C23_AsymmetryFlagged ==
    LimbReportAsked =>
        /\ val.k = "page"
        /\ val.report.k = "html"
        /\ val.report.arm_asymmetry = ArmImbalance
        /\ val.report.leg_asymmetry = LegImbalance
        /\ ArmImbalance = Imbalance(ToKg(inp.unit_system, inp.right_arm),
                                    ToKg(inp.unit_system, inp.left_arm))
        /\ FEq(ArmImbalance, Zero(0)) <=> FEq(inp.left_arm, inp.right_arm)
        /\ FLe(Zero(0), ArmImbalance) /\ FLt(ArmImbalance, Hundred)
        /\ val.report.arm_color = "text-red-600" <=> FLt(FromInt(10), ArmImbalance)
        /\ val.report.leg_color = "text-red-600" <=> FLt(FromInt(10), LegImbalance)
        /\ (\E i \in 1..Len(val.report.priority_goals) :
                val.report.priority_goals[i] = ImbalanceGoal)
              <=> (FLt(FromInt(10), ArmImbalance) \/ FLt(FromInt(10), LegImbalance))

====
